---- MODULE Spec2Model ----
(***************************************************************************)
(* navi: a conversational agent harness.                                   *)
(*                                                                         *)
(*   Context Manager   src/src/context.ts                                  *)
(*   Provider Adapter  src/src/providers/anthropic.ts (block-oriented SSE) *)
(*                     src/src/tui/ansi.test.ts, lines 28-295 (the OpenAI  *)
(*                     delta-chunk provider)                               *)
(*   Agent Loop        src/src/repl.ts, lines 117-253                      *)
(*                                                                         *)
(* Three specifications share the variables of this module; each leaves the *)
(* variables of the other components at their initial values:              *)
(*   SpecCtx      the pure functions of the Context Manager                *)
(*   SpecAdapter  one model call of the adapter the registry selected      *)
(*   Spec         the agent loop over a sequence of turns                  *)
(***************************************************************************)
EXTENDS Integers, Sequences, FiniteSets, TLC

VARIABLES
    \* ---- Context Manager (a call of manageContext / truncateMessages)
    ctxIn,          \* the arguments: messages, config, systemPrompt, tools
    ctxOp,          \* "none" | "manageContext" | "truncateMessages"
    ctxOut,         \* the TruncationResult, or the raised error
    \* ---- Provider Adapter (one model call, send(config, messages, ...))
    aProvider,      \* "anthropic" | "openai": the adapter the registry selected
    aPc,            \* "idle" | "reading" | "ended" | "threw": where the generator stands
    aResp,          \* the HTTP response fetch returned
    aBody,          \* the response's body stream: "none" | "open" | "drained" | "errored"
    aWire,          \* the data lines read so far, in arrival order
    aToolMap,       \* toolBlocks (anthropic) / toolCallBuilders (openai)
    aInputTokens,   \* anthropic.ts:72
    aOutputTokens,  \* anthropic.ts:73
    aEvents,        \* the ProviderStreamEvents yielded so far
    \* ---- Provider Adapter: the read loop, byte by byte (anthropic.ts:70-94)
    wireBytes,      \* the bytes of the response body, in order
    bytesRead,      \* how many of them reader.read() has delivered
    buffer,         \* anthropic.ts:71
    lineCarried,    \* the last chunk completed a line begun in an earlier chunk
    \* ---- Agent Loop: the ConversationState (repl.ts:88-94)
    messages,
    totalInputTokens,
    totalOutputTokens,
    turns,
    \* ---- Agent Loop: sendMessage / runAgentLoop
    pc,             \* "idle" | "loop" | "stream" | "tools"
    maxIterations,  \* repl.ts:138
    contentBlocks,  \* repl.ts:141
    textChunks,     \* repl.ts:142
    stopReason,     \* repl.ts:143
    toolResults,    \* repl.ts:194
    blockIdx,       \* the position of the for loop of repl.ts:196
    outcome,        \* of the last sendMessage: "none" | "returned" | "raised"
    raisedError,    \* the message of the Error it raised
    \* ---- Agent Loop: its environment and what an observer records
    env,            \* the provider, the tool registry and confirmTool
    lastEvent,      \* the event the provider yielded last in the current call
    evCount,        \* the number of events it yielded in the current call
    callEvents,     \* the events it yielded in the current call, in order
    provCalls,      \* streamMessage calls of the current turn
    toolExecs,      \* Tool.execute invocations of the current turn
    turnsStarted,   \* sendMessage calls so far
    freeEvents,     \* events the free provider has yielded, over all calls
    nextId,         \* the id the provider gives its next tool call
    streamsOpen,    \* streamMessage generators started and not yet finished
    confirmed,      \* confirmTool calls of the iteration: id, name, answer
    executed,       \* ids of the tool calls of the iteration given to execute
    inFlight,       \* ids of the execute calls that have not settled yet
    observed,       \* the callbacks, confirmTool and execute calls of the iteration
    \* ---- the REPL around the conversation (main.ts)
    systemPrompt,   \* ConversationState.systemPrompt, repl.ts:88-94
    lastCommand,    \* what the REPL did last: "none" | "message" | "clear"
    \* ---- the loop's use of the Context Manager (main.ts:146, 277, 310-314)
    contextConfig,  \* the ContextConfig given to sendMessage
    notified        \* the onContextTruncation calls of the iteration: dropped counts

ctxVars == <<ctxIn, ctxOp, ctxOut>>
adapterVars == <<aProvider, aPc, aResp, aBody, aWire, aToolMap, aInputTokens, aOutputTokens,
                 aEvents>>

readerVars == <<wireBytes, bytesRead, buffer, lineCarried>>

toolVars == <<confirmed, executed, inFlight, observed>>

replVars == <<systemPrompt, lastCommand>>

managedVars == <<contextConfig, notified>>

loopVars == <<messages, totalInputTokens, totalOutputTokens, turns, pc, maxIterations,
              contentBlocks, textChunks, stopReason, toolResults, blockIdx, outcome,
              raisedError, env, lastEvent, evCount, callEvents, provCalls, toolExecs,
              turnsStarted, freeEvents, nextId,
              streamsOpen, confirmed, executed, inFlight, observed, systemPrompt,
              lastCommand, contextConfig, notified>>

\* What the actions of one component leave alone.
notCtxVars == <<adapterVars, readerVars, loopVars>>
notAdapterVars == <<ctxVars, readerVars, loopVars>>
notLoopVars == <<ctxVars, adapterVars, readerVars>>

(***************************************************************************)
(* Values                                                                  *)
(***************************************************************************)

\* An optional value (string | undefined, ApiTool[] | undefined, ...).
None == [defined |-> FALSE, value |-> ""]
Some(v) == [defined |-> TRUE, value |-> v]

\* Math.ceil(n / 4) for n >= 0.
CeilDiv4_Floor(n) == n \div 4
CeilDiv4(n) == (n + 3) \div 4

\* A JSON object Record<string, unknown> is the sequence of its
\* <<key, string value>> members in insertion order; {} is << >>.
RECURSIVE MembersLen(_)
MembersLen(obj) ==
    IF obj = << >> THEN 0
    ELSE Len(obj[1][1]) + Len(obj[1][2]) + 5
         + (IF Len(obj) > 1 THEN 1 ELSE 0) + MembersLen(Tail(obj))

\* JSON.stringify(obj).length: {"k":"v","k2":"v2"}
StringifyLen(obj) == 2 + MembersLen(obj)

\* ContentBlock, src/unnamed/part_006:6-9 (one record shape for the variant).
TextBlock(t) ==
    [type |-> "text", text |-> t, id |-> 0, name |-> "", input |-> << >>,
     tool_use_id |-> 0, content |-> "", is_error |-> FALSE]
ToolUseBlock(id, name, input) ==
    [type |-> "tool_use", text |-> "", id |-> id, name |-> name, input |-> input,
     tool_use_id |-> 0, content |-> "", is_error |-> FALSE]
ToolResultBlock(id, content, isError) ==
    [type |-> "tool_result", text |-> "", id |-> 0, name |-> "", input |-> << >>,
     tool_use_id |-> id, content |-> content, is_error |-> isError]

\* Message, src/unnamed/part_006:11-14: content is a string or ContentBlock[].
StringMessage(role, s) == [role |-> role, isString |-> TRUE, text |-> s, blocks |-> << >>]
BlockMessage(role, bs) == [role |-> role, isString |-> FALSE, text |-> "", blocks |-> bs]

(***************************************************************************)
(* Context Manager, src/src/context.ts                                     *)
(***************************************************************************)

TOOL_BLOCK_OVERHEAD == 10

estimateBlockTokens(block) ==
    CASE block.type = "text" -> CeilDiv4(Len(block.text))
      [] block.type = "tool_use" ->
            CeilDiv4(Len(block.name)) + CeilDiv4(StringifyLen(block.input))
            + TOOL_BLOCK_OVERHEAD
      [] block.type = "tool_result" -> CeilDiv4(Len(block.content)) + TOOL_BLOCK_OVERHEAD
      [] OTHER -> 0

RECURSIVE SumBlockTokens(_)
SumBlockTokens(blocks) ==
    IF blocks = << >> THEN 0
    ELSE estimateBlockTokens(Head(blocks)) + SumBlockTokens(Tail(blocks))

estimateTokens(message) ==
    IF message.isString THEN CeilDiv4(Len(message.text))
    ELSE SumBlockTokens(message.blocks)

\* An ApiTool is [name, description, input_schema], input_schema held as its
\* serialized text. JSON.stringify(tools).length:
\*   [{"name":"N","description":"D","input_schema":S},...]
ApiToolJsonLen(t) == 44 + Len(t.name) + Len(t.description) + Len(t.input_schema)

RECURSIVE ToolsJsonBody(_)
ToolsJsonBody(tools) ==
    IF tools = << >> THEN 0
    ELSE ApiToolJsonLen(Head(tools)) + (IF Len(tools) > 1 THEN 1 ELSE 0)
         + ToolsJsonBody(Tail(tools))

ToolsJsonLen(tools) == 2 + ToolsJsonBody(tools)

estimateSystemTokens(prompt, tools) ==
    (IF prompt.defined /\ prompt.value # ""
        THEN CeilDiv4(Len(prompt.value)) ELSE 0)
    + (IF tools.defined /\ Len(tools.value) > 0
        THEN CeilDiv4(ToolsJsonLen(tools.value)) ELSE 0)

RECURSIVE totalMessageTokens(_)
totalMessageTokens(msgs) ==
    IF msgs = << >> THEN 0
    ELSE estimateTokens(Head(msgs)) + totalMessageTokens(Tail(msgs))

\* TruncationResult, or a raised Error (status "threw"). array tells whether
\* the messages array of the result is the array passed in ("input") or one
\* the function built ("new"): [], [...messages], [first] and
\* [first, ...kept] (context.ts:90, 95, 104, 122) are all array literals.
Returned_InputArray(msgs, dropped) ==
    [status |-> "returned", messages |-> msgs, dropped |-> dropped, error |-> "",
     total |-> 0, available |-> 0, array |-> "input"]
Returned(msgs, dropped) ==
    [status |-> "returned", messages |-> msgs, dropped |-> dropped, error |-> "",
     total |-> 0, available |-> 0, array |-> "new"]
Threw_NoNumbers(err, total, available) ==
    [status |-> "threw", messages |-> << >>, dropped |-> 0, error |-> err,
     total |-> 0, available |-> 0, array |-> "none"]
Threw(err, total, available) ==
    [status |-> "threw", messages |-> << >>, dropped |-> 0, error |-> err,
     total |-> total, available |-> available, array |-> "none"]
NoResult ==
    [status |-> "none", messages |-> << >>, dropped |-> 0, error |-> "",
     total |-> 0, available |-> 0, array |-> "none"]

\* context.ts:108  let budget = maxTokens - firstTokens
InitialBudget_Whole(maxTokens, firstTokens) == maxTokens
InitialBudget(maxTokens, firstTokens) == maxTokens - firstTokens

\* context.ts:115  kept.unshift(msg)
Unshift_Push(kept, msg) == kept \o <<msg>>
Unshift(kept, msg) == <<msg>> \o kept

\* context.ts:111-120, the backward scan from index i (1-based; the loop runs
\* while i >= 2, the 0-based i >= 1) with the budget left and the tail kept.
RECURSIVE KeepTail_Skip(_, _, _, _)
KeepTail_Skip(msgs, i, budget, kept) ==
    IF i < 2 THEN kept
    ELSE LET tokens == estimateTokens(msgs[i])
         IN  IF tokens <= budget
                THEN KeepTail_Skip(msgs, i - 1, budget - tokens, Unshift(kept, msgs[i]))
                ELSE KeepTail_Skip(msgs, i - 1, budget, kept)
RECURSIVE KeepTail(_, _, _, _)
KeepTail(msgs, i, budget, kept) ==
    IF i < 2 THEN kept
    ELSE LET tokens == estimateTokens(msgs[i])
         IN  IF tokens <= budget
                THEN KeepTail(msgs, i - 1, budget - tokens, Unshift(kept, msgs[i]))
                ELSE kept

\* context.ts:102-105  return { messages: [first], dropped: messages.length - 1 }
FirstOnly_DropAll(msgs) == Returned(<<msgs[1]>>, Len(msgs))
FirstOnly(msgs) == Returned(<<msgs[1]>>, Len(msgs) - 1)

\* context.ts:88-127
truncateMessages(msgs, maxTokens) ==
    IF Len(msgs) = 0 THEN Returned(<< >>, 0)
    ELSE IF totalMessageTokens(msgs) <= maxTokens THEN Returned(msgs, 0)
    ELSE LET first == msgs[1]
             firstTokens == estimateTokens(first)
         IN  IF firstTokens > maxTokens
                THEN FirstOnly(msgs)
                ELSE LET kept == KeepTail(msgs, Len(msgs),
                                          InitialBudget(maxTokens, firstTokens), << >>)
                         result == <<first>> \o kept
                     IN  Returned(result, Len(msgs) - Len(result))

\* context.ts:139
AvailableTokens(config, prompt, tools) ==
    config.maxContextTokens - estimateSystemTokens(prompt, tools)
    - config.reservedTokens

\* context.ts:141  if (availableTokens <= 0)
BudgetExhausted_Negative(availableTokens) == availableTokens < 0
BudgetExhausted(availableTokens) == availableTokens <= 0

\* context.ts:149  if (total <= availableTokens)
WithinBudget_Strict(total, availableTokens) == total < availableTokens
WithinBudget(total, availableTokens) == total <= availableTokens

\* context.ts:132-163
manageContext(msgs, config, prompt, tools) ==
    LET availableTokens == AvailableTokens(config, prompt, tools)
        total == totalMessageTokens(msgs)
    IN  IF BudgetExhausted(availableTokens) THEN Threw("exhausted", 0, availableTokens)
        ELSE IF WithinBudget(total, availableTokens) THEN Returned(msgs, 0)
        ELSE IF config.strategy = "error" THEN Threw("exceeded", total, availableTokens)
        ELSE truncateMessages(msgs, availableTokens)

(***************************************************************************)
(* Inputs of the Context Manager                                           *)
(***************************************************************************)

MaxMsgs == 4

ExecSchema == "{\"type\":\"object\",\"properties\":{},\"required\":[]}"
ExecApiTool == [name |-> "exec", description |-> "run", input_schema |-> ExecSchema]

\* Messages of 0, 2, 10, 13, 11 and 18 estimated tokens.
CtxMessages ==
    { StringMessage("user", ""),
      StringMessage("user", "hello"),
      StringMessage("user", "0123456789012345678901234567890123456789"),
      BlockMessage("assistant", <<TextBlock("ok"), ToolUseBlock(1, "exec", << >>)>>),
      BlockMessage("user", <<ToolResultBlock(1, "done", FALSE)>>),
      BlockMessage("assistant",
                   <<ToolUseBlock(2, "read_file", << <<"path", "/tmp/x">> >>)>>) }

RECURSIVE SeqsUpTo(_, _)
SeqsUpTo(S, n) ==
    IF n = 0 THEN { << >> }
    ELSE LET shorter == SeqsUpTo(S, n - 1)
         IN  shorter \cup { Append(s, x) : s \in { t \in shorter : Len(t) = n - 1 }, x \in S }

CtxConfigs ==
    [maxContextTokens : {12, 24, 40}, strategy : {"truncate", "error"},
     reservedTokens : {0, 10, 12}]

CtxInputs ==
    [messages : SeqsUpTo(CtxMessages, MaxMsgs),
     config : CtxConfigs,
     systemPrompt : {None, Some("sys!")},
     tools : {None, Some(<<ExecApiTool>>)}]

\* A ContextConfig for the runs in which the Context Manager is not called.
DefaultContextConfig ==
    [maxContextTokens |-> 12, strategy |-> "truncate", reservedTokens |-> 0]

CtxIdle == /\ ctxIn = [messages |-> << >>, config |-> DefaultContextConfig,
                       systemPrompt |-> None, tools |-> None]
           /\ ctxOp = "none"
           /\ ctxOut = NoResult

CtxInit == /\ ctxIn \in CtxInputs
           /\ ctxOp = "none"
           /\ ctxOut = NoResult

\* The array passed as messages, after the call: neither function assigns to
\* it or to one of its elements (unshift, context.ts:115, acts on kept).
ArgumentAfter(msgs) == msgs

ManageContextCall ==
    /\ ctxOp = "none"
    /\ ctxOp' = "manageContext"
    /\ ctxOut' = manageContext(ctxIn.messages, ctxIn.config, ctxIn.systemPrompt, ctxIn.tools)
    /\ ctxIn' = [ctxIn EXCEPT !.messages = ArgumentAfter(@)]
    /\ UNCHANGED notCtxVars

\* truncateMessages called directly, with maxContextTokens as the budget.
TruncateMessagesCall ==
    /\ ctxOp = "none"
    /\ ctxOp' = "truncateMessages"
    /\ ctxOut' = truncateMessages(ctxIn.messages, ctxIn.config.maxContextTokens)
    /\ ctxIn' = [ctxIn EXCEPT !.messages = ArgumentAfter(@)]
    /\ UNCHANGED notCtxVars

CtxNext == ManageContextCall \/ TruncateMessagesCall

(***************************************************************************)
(* Provider Adapter: stream events and the wire                            *)
(***************************************************************************)

\* ProviderStreamEvent / StreamEvent, src/unnamed/part_006:21-26. A tool id
\* is a number; 0 stands for the empty string the adapters default to.
BaseEvent ==
    [type |-> "", text |-> "", id |-> 0, name |-> "", input |-> << >>,
     inputTokens |-> 0, outputTokens |-> 0, stopReason |-> "", error |-> ""]
TextEvent(t) == [BaseEvent EXCEPT !.type = "text", !.text = t]
ToolUseEvent(id, name, input) ==
    [BaseEvent EXCEPT !.type = "tool_use", !.id = id, !.name = name, !.input = input]
UsageEvent(inTok, outTok) ==
    [BaseEvent EXCEPT !.type = "usage", !.inputTokens = inTok, !.outputTokens = outTok]
StopEvent(reason) == [BaseEvent EXCEPT !.type = "stop", !.stopReason = reason]
ErrorEvent(msg) == [BaseEvent EXCEPT !.type = "error", !.error = msg]

\* The two argument fragments of the tool call {"path": "/tmp/x"}.
FragHead == "{\"path\":"
FragTail == "\"/tmp/x\"}"

\* JSON.parse of the accumulated argument text. Over texts built from the
\* fragments above the only document that parses is FragHead \o FragTail.
JsonParse(json) ==
    IF json = FragHead \o FragTail
        THEN [ok |-> TRUE, value |-> << <<"path", "/tmp/x">> >>]
        ELSE [ok |-> FALSE, value |-> << >>]

\* anthropic.ts:131, ansi.test.ts:253  chunks.join("")
RECURSIVE JoinChunks_Reversed(_)
JoinChunks_Reversed(chunks) ==
    IF chunks = << >> THEN "" ELSE JoinChunks_Reversed(Tail(chunks)) \o Head(chunks)
RECURSIVE JoinChunks(_)
JoinChunks(chunks) ==
    IF chunks = << >> THEN "" ELSE Head(chunks) \o JoinChunks(Tail(chunks))

\* anthropic.ts:130-138, ansi.test.ts:252-260: the input of a completed call,
\* {} when the text is empty or does not parse.
ParseToolInput_Raw(chunks) ==
    LET json == JoinChunks(chunks)
    IN  IF json # "" /\ JsonParse(json).ok THEN JsonParse(json).value
        ELSE << <<"raw", json>> >>
ParseToolInput(chunks) ==
    LET json == JoinChunks(chunks)
    IN  IF json # "" /\ JsonParse(json).ok THEN JsonParse(json).value ELSE << >>

\* A Map<number, {id, name, chunks}> in insertion order (the order a
\* for..of over the Map visits it).
RECURSIVE MapIndexOf(_, _)
MapIndexOf(map, key) ==
    IF map = << >> THEN 0
    ELSE IF Head(map).key = key THEN 1
    ELSE LET r == MapIndexOf(Tail(map), key) IN IF r = 0 THEN 0 ELSE r + 1
MapHas(map, key) == MapIndexOf(map, key) # 0
MapGet(map, key) == map[MapIndexOf(map, key)]
MapSet(map, key, entry) ==
    IF MapHas(map, key) THEN [map EXCEPT ![MapIndexOf(map, key)] = entry]
    ELSE Append(map, entry)
MapDelete_Keep(map, key) == map
MapDelete(map, key) ==
    LET i == MapIndexOf(map, key)
    IN  IF i = 0 THEN map ELSE SubSeq(map, 1, i - 1) \o SubSeq(map, i + 1, Len(map))
MapEntry(key, id, name, chunks) == [key |-> key, id |-> id, name |-> name, chunks |-> chunks]

NoIndex == -1
Absent == -1

\* A line of the response once split at "\n":
\*   kind "other"    a line that does not start with "data: "
\*   kind "done"     data: [DONE]
\*   kind "badjson"  a data line whose payload JSON.parse rejects
\*   kind "event"    a data line holding an ApiStreamEvent (anthropic.ts:14-27)
\*   kind "chunk"    a data line holding an OpenAIStreamDelta (ansi.test.ts:139-156)
BaseLine ==
    [kind |-> "other",
     \* ApiStreamEvent
     type |-> "", index |-> NoIndex, cbType |-> "", cbId |-> 0, cbName |-> "",
     deltaType |-> "", text |-> "", partialJson |-> "", stopReason |-> "",
     hasMessageUsage |-> FALSE, inputTokens |-> Absent,
     hasUsage |-> FALSE, outputTokens |-> Absent,
     hasErrorMessage |-> FALSE, errorMessage |-> "",
     \* OpenAIStreamDelta
     hasChoice |-> FALSE, content |-> "", toolCalls |-> << >>, finishReason |-> "",
     promptTokens |-> Absent, completionTokens |-> Absent]

DoneLine == [BaseLine EXCEPT !.kind = "done"]
BadJsonLine == [BaseLine EXCEPT !.kind = "badjson"]

TextDelta(i, t) ==
    [BaseLine EXCEPT !.kind = "event", !.type = "content_block_delta", !.index = i,
                     !.deltaType = "text_delta", !.text = t]
BlockStart(i, cbType, id, name) ==
    [BaseLine EXCEPT !.kind = "event", !.type = "content_block_start", !.index = i,
                     !.cbType = cbType, !.cbId = id, !.cbName = name]
InputJsonDelta(i, frag) ==
    [BaseLine EXCEPT !.kind = "event", !.type = "content_block_delta", !.index = i,
                     !.deltaType = "input_json_delta", !.partialJson = frag]
BlockStop(i) ==
    [BaseLine EXCEPT !.kind = "event", !.type = "content_block_stop", !.index = i]
MessageStart(hasUsage, inTok) ==
    [BaseLine EXCEPT !.kind = "event", !.type = "message_start",
                     !.hasMessageUsage = hasUsage, !.inputTokens = inTok]
MessageDelta(hasUsage, outTok, reason) ==
    [BaseLine EXCEPT !.kind = "event", !.type = "message_delta",
                     !.hasUsage = hasUsage, !.outputTokens = outTok, !.stopReason = reason]
StreamError(hasMsg, msg) ==
    [BaseLine EXCEPT !.kind = "event", !.type = "error",
                     !.hasErrorMessage = hasMsg, !.errorMessage = msg]

\* x ?? 0 for a count that may be absent
OrZero(n) == IF n = Absent THEN 0 ELSE n

(***************************************************************************)
(* Block-oriented adapter, src/src/providers/anthropic.ts:84-172: what one *)
(* line does to toolBlocks, inputTokens and outputTokens, the events it    *)
(* yields and whether the generator returns.                               *)
(***************************************************************************)

\* anthropic.ts:96-102
AnthropicText(ev) ==
    IF ev.type = "content_block_delta" /\ ev.deltaType = "text_delta" /\ ev.text # ""
        THEN <<TextEvent(ev.text)>> ELSE << >>

\* anthropic.ts:104-114
AnthropicBlockStart(map, ev) ==
    IF ev.type = "content_block_start" /\ ev.cbType = "tool_use" /\ ev.index # NoIndex
        THEN MapSet(map, ev.index, MapEntry(ev.index, ev.cbId, ev.cbName, << >>))
        ELSE map

\* anthropic.ts:116-125
AnthropicJsonDelta(map, ev) ==
    IF /\ ev.type = "content_block_delta" /\ ev.deltaType = "input_json_delta"
       /\ ev.index # NoIndex
       /\ MapHas(map, ev.index) /\ ev.partialJson # ""
        THEN LET b == MapGet(map, ev.index)
             IN  MapSet(map, ev.index, [b EXCEPT !.chunks = Append(@, ev.partialJson)])
        ELSE map

\* anthropic.ts:127-129: a content_block_stop of a tracked block
AnthropicCompletes(map, ev) ==
    ev.type = "content_block_stop" /\ ev.index # NoIndex /\ MapHas(map, ev.index)

\* anthropic.ts:130-144
AnthropicToolUse(map, ev) ==
    IF AnthropicCompletes(map, ev)
        THEN LET b == MapGet(map, ev.index)
             IN  <<ToolUseEvent(b.id, b.name, ParseToolInput(b.chunks))>>
        ELSE << >>

\* anthropic.ts:145
AnthropicBlockStop(map, ev) ==
    IF AnthropicCompletes(map, ev) THEN MapDelete(map, ev.index) ELSE map

\* anthropic.ts:149-151
AnthropicInputTokens(inTok, ev) ==
    IF ev.type = "message_start" /\ ev.hasMessageUsage THEN OrZero(ev.inputTokens) ELSE inTok

\* anthropic.ts:153-156
AnthropicOutputTokens(outTok, ev) ==
    IF ev.type = "message_delta" /\ ev.hasUsage THEN OrZero(ev.outputTokens) ELSE outTok

\* anthropic.ts:157-162
AnthropicStop(ev) ==
    IF ev.type = "message_delta" /\ ev.stopReason # ""
        THEN <<StopEvent(ev.stopReason)>> ELSE << >>

\* anthropic.ts:165-169
AnthropicError(ev) ==
    IF ev.type = "error"
        THEN <<ErrorEvent(IF ev.hasErrorMessage THEN ev.errorMessage
                          ELSE "Unknown stream error")>>
        ELSE << >>

\* anthropic.ts:170  return
AnthropicReturns_Never(ev) == FALSE
AnthropicReturns(ev) == ev.type = "error"

\* anthropic.ts:85-94: lines the loop skips
Skipped(line) == line.kind \in {"other", "done", "badjson"}

\* anthropic.ts:175
FinalUsage_Swapped(inTok, outTok) == <<UsageEvent(outTok, inTok)>>
FinalUsage(inTok, outTok) == <<UsageEvent(inTok, outTok)>>

(***************************************************************************)
(* Delta-chunk adapter, src/src/tui/ansi.test.ts:211-288 (the send of the  *)
(* OpenAI provider).                                                       *)
(***************************************************************************)

\* One element of choices[0].delta.tool_calls; id 0 is an absent id.
ToolCallDelta(i, id, name, args) == [index |-> i, id |-> id, name |-> name, arguments |-> args]

Chunk(content, toolCalls, finishReason) ==
    [BaseLine EXCEPT !.kind = "chunk", !.hasChoice = TRUE, !.content = content,
                     !.toolCalls = toolCalls, !.finishReason = finishReason]
UsageChunk(promptTok, completionTok) ==
    [BaseLine EXCEPT !.kind = "chunk", !.hasUsage = TRUE, !.promptTokens = promptTok,
                     !.completionTokens = completionTok]

\* ansi.test.ts:225-227
OpenAIText(ch) ==
    IF ch.hasChoice /\ ch.content # "" THEN <<TextEvent(ch.content)>> ELSE << >>

\* ansi.test.ts:232-243, one tool_calls element
OpenAIToolCallDelta(map, tc) ==
    LET started == IF tc.id # 0
                      THEN MapSet(map, tc.index, MapEntry(tc.index, tc.id, tc.name, << >>))
                      ELSE map
    IN  IF MapHas(started, tc.index) /\ tc.arguments # ""
            THEN LET b == MapGet(started, tc.index)
                 IN  MapSet(started, tc.index, [b EXCEPT !.chunks = Append(@, tc.arguments)])
            ELSE started

\* ansi.test.ts:230-245
RECURSIVE OpenAIToolCalls(_, _)
OpenAIToolCalls(map, tcs) ==
    IF tcs = << >> THEN map
    ELSE OpenAIToolCalls(OpenAIToolCallDelta(map, Head(tcs)), Tail(tcs))

\* ansi.test.ts:251-268: one tool_use per builder, in the Map's order
RECURSIVE OpenAIEmitBuilders(_)
OpenAIEmitBuilders(map) ==
    IF map = << >> THEN << >>
    ELSE <<ToolUseEvent(Head(map).id, Head(map).name, ParseToolInput(Head(map).chunks))>>
         \o OpenAIEmitBuilders(Tail(map))

\* ansi.test.ts:273
OpenAIStopReason(finishReason) == IF finishReason = "stop" THEN "end_turn" ELSE finishReason

\* ansi.test.ts:248-276
OpenAIFinish(map, ch) ==
    IF ch.hasChoice /\ ch.finishReason # ""
        THEN IF ch.finishReason = "tool_calls"
                THEN OpenAIEmitBuilders(map) \o <<StopEvent("tool_use")>>
                ELSE <<StopEvent(OpenAIStopReason(ch.finishReason))>>
        ELSE << >>

\* ansi.test.ts:267: every builder is deleted once emitted
OpenAIBuildersAfter(map, ch) ==
    IF ch.hasChoice /\ ch.finishReason = "tool_calls" THEN << >> ELSE map

\* ansi.test.ts:279-287
OpenAIUsage(ch) ==
    IF ch.hasUsage
        THEN <<UsageEvent(OrZero(ch.promptTokens), OrZero(ch.completionTokens))>>
        ELSE << >>

(***************************************************************************)
(* The HTTP response and one model call                                    *)
(***************************************************************************)

MaxLines == 4

Indexes == {0, 1}

HttpResponse(status, hasBody, text) == [status |-> status, hasBody |-> hasBody, text |-> text]
NoResponse == HttpResponse(0, FALSE, "")
Responses ==
    { HttpResponse(200, TRUE, ""), HttpResponse(200, FALSE, ""),
      HttpResponse(401, TRUE, "unauthorized"), HttpResponse(500, FALSE, "overloaded") }

\* response.ok
Ok(resp) == resp.status >= 200 /\ resp.status <= 299

StatusText(status) ==
    CASE status = 401 -> "401" [] status = 500 -> "500" [] OTHER -> "200"

\* anthropic.ts:58-62, ansi.test.ts:187-191
HttpErrorEvents_ThenUsage(resp) ==
    <<ErrorEvent("API error " \o StatusText(resp.status) \o ": " \o resp.text),
      UsageEvent(0, 0)>>
HttpErrorEvents(resp) ==
    <<ErrorEvent("API error " \o StatusText(resp.status) \o ": " \o resp.text)>>

\* anthropic.ts:64-68, ansi.test.ts:193-197
NoBodyEvents == <<ErrorEvent("No response body")>>

AnthropicLines ==
    { DoneLine,
      BadJsonLine,
      TextDelta(0, "hi"),
      BlockStart(0, "tool_use", 1, "read_file"),
      BlockStart(1, "tool_use", 2, "exec"),
      InputJsonDelta(0, FragHead),
      InputJsonDelta(0, FragTail),
      BlockStop(0),
      BlockStop(1),
      MessageStart(TRUE, 3),
      MessageStart(TRUE, Absent),
      MessageDelta(TRUE, 7, "tool_use"),
      MessageDelta(TRUE, 9, ""),
      StreamError(TRUE, "overloaded") }

OpenAILines ==
    { DoneLine,
      Chunk("hi", << >>, ""),
      Chunk("", <<ToolCallDelta(0, 1, "read_file", "")>>, ""),
      Chunk("", <<ToolCallDelta(1, 2, "exec", FragHead)>>, ""),
      Chunk("", <<ToolCallDelta(0, 3, "write_file", "")>>, ""),
      Chunk("", <<ToolCallDelta(0, 0, "", FragHead)>>, ""),
      Chunk("", <<ToolCallDelta(0, 0, "", FragTail), ToolCallDelta(1, 0, "", FragTail)>>, ""),
      Chunk("", << >>, "tool_calls"),
      Chunk("", << >>, "stop"),
      Chunk("", << >>, "length"),
      UsageChunk(3, 7) }

AdapterIdle ==
    /\ aProvider = "anthropic"
    /\ aPc = "idle"
    /\ aResp = NoResponse
    /\ aBody = "none"
    /\ aWire = << >>
    /\ aToolMap = << >>
    /\ aInputTokens = 0
    /\ aOutputTokens = 0
    /\ aEvents = << >>

AdapterInit ==
    /\ aProvider \in {"anthropic", "openai"}
    /\ aPc = "idle"
    /\ aResp = NoResponse
    /\ aBody = "none"
    /\ aWire = << >>
    /\ aToolMap = << >>
    /\ aInputTokens = 0
    /\ aOutputTokens = 0
    /\ aEvents = << >>

\* anthropic.ts:59, ansi.test.ts:188: response.text() reads the body, if there
\* is one, to its end
TextRead(resp) == IF resp.hasBody THEN "drained" ELSE "none"

\* anthropic.ts:48-74, ansi.test.ts:178-201: fetch, then the two early exits
Send(resp) ==
    /\ aPc = "idle"
    /\ aResp' = resp
    /\ IF ~Ok(resp)
          THEN aEvents' = HttpErrorEvents(resp) /\ aPc' = "ended" /\ aBody' = TextRead(resp)
          ELSE IF ~resp.hasBody
                  THEN aEvents' = NoBodyEvents /\ aPc' = "ended" /\ aBody' = "none"
                  ELSE aEvents' = << >> /\ aPc' = "reading" /\ aBody' = "open"
    /\ UNCHANGED <<aProvider, aWire, aToolMap, aInputTokens, aOutputTokens, notAdapterVars>>

\* anthropic.ts:84-172, one line of the response
AnthropicRead(line) ==
    /\ aProvider = "anthropic"
    /\ aPc = "reading"
    /\ Len(aWire) < MaxLines
    /\ aWire' = Append(aWire, line)
    /\ IF Skipped(line)
          THEN UNCHANGED <<aToolMap, aInputTokens, aOutputTokens, aEvents, aPc>>
          ELSE LET started == AnthropicBlockStart(aToolMap, line)
                   fed == AnthropicJsonDelta(started, line)
               IN  /\ aEvents' = aEvents \o AnthropicText(line) \o AnthropicToolUse(fed, line)
                                    \o AnthropicStop(line) \o AnthropicError(line)
                   /\ aToolMap' = AnthropicBlockStop(fed, line)
                   /\ aInputTokens' = AnthropicInputTokens(aInputTokens, line)
                   /\ aOutputTokens' = AnthropicOutputTokens(aOutputTokens, line)
                   /\ aPc' = IF AnthropicReturns(line) THEN "ended" ELSE "reading"
    /\ UNCHANGED <<aProvider, aResp, aBody, notAdapterVars>>

\* ansi.test.ts:211-288, one line of the response
OpenAIRead(line) ==
    /\ aProvider = "openai"
    /\ aPc = "reading"
    /\ Len(aWire) < MaxLines
    /\ aWire' = Append(aWire, line)
    /\ IF Skipped(line)
          THEN UNCHANGED <<aToolMap, aEvents>>
          ELSE LET built == OpenAIToolCalls(aToolMap, IF line.hasChoice THEN line.toolCalls
                                                      ELSE << >>)
               IN  /\ aEvents' = aEvents \o OpenAIText(line) \o OpenAIFinish(built, line)
                                    \o OpenAIUsage(line)
                   /\ aToolMap' = OpenAIBuildersAfter(built, line)
    /\ UNCHANGED <<aProvider, aResp, aBody, aInputTokens, aOutputTokens, aPc, notAdapterVars>>

\* anthropic.ts:77-78 and 175, ansi.test.ts:204-205 and 290: the reader
\* reports done
ReadDone ==
    /\ aPc = "reading"
    /\ aPc' = "ended"
    /\ aBody' = "drained"
    /\ aEvents' = IF aProvider = "anthropic"
                     THEN aEvents \o FinalUsage(aInputTokens, aOutputTokens)
                     ELSE aEvents
    /\ UNCHANGED <<aProvider, aResp, aWire, aToolMap, aInputTokens, aOutputTokens, notAdapterVars>>

\* anthropic.ts:77, ansi.test.ts:204: `await reader.read()` is in no try block.
\* When the transport fails under the reader the promise rejects, and the
\* rejection leaves the generator as an exception: nothing more is yielded.
ReadThrows ==
    /\ aPc = "reading"
    /\ aPc' = "threw"
    /\ aBody' = "errored"
    /\ UNCHANGED <<aProvider, aResp, aWire, aToolMap, aInputTokens, aOutputTokens, aEvents,
                   notAdapterVars>>

AdapterNext ==
    \/ \E resp \in Responses : Send(resp)
    \/ \E line \in AnthropicLines : AnthropicRead(line)
    \/ \E line \in OpenAILines : OpenAIRead(line)
    \/ ReadDone
    \/ ReadThrows

(***************************************************************************)
(* Provider Adapter, the read loop byte by byte:                           *)
(* src/src/providers/anthropic.ts:70-94, src/src/tui/ansi.test.ts:199-221  *)
(*                                                                         *)
(* A text is a sequence of one-character strings. The JSON texts of the    *)
(* data lines are the short texts of JsonTexts; any other text, a part of  *)
(* one of them included, does not parse.                                   *)
(***************************************************************************)

MaxBodyLines == 2

\* The most bytes one read delivers: the longest line and its newline.
MaxChunk == 13

NL == "\n"

DataPrefix == <<"d", "a", "t", "a", ":", " ">>
DoneMarker == <<"[", "D", "O", "N", "E", "]">>

\* line.startsWith(prefix)
StartsWith(line, prefix) ==
    Len(line) >= Len(prefix) /\ SubSeq(line, 1, Len(prefix)) = prefix

\* String.prototype.trim
WhiteSpace == {" ", "\r", "\t", NL}
RECURSIVE TrimStart(_)
TrimStart(text) ==
    IF text # << >> /\ Head(text) \in WhiteSpace THEN TrimStart(Tail(text)) ELSE text
RECURSIVE TrimEnd(_)
TrimEnd(text) ==
    IF text # << >> /\ text[Len(text)] \in WhiteSpace
       THEN TrimEnd(SubSeq(text, 1, Len(text) - 1))
       ELSE text
Trim(text) == TrimEnd(TrimStart(text))

\* JSON.parse(data) as ApiStreamEvent, anthropic.ts:89-94
AnthropicJson(data) ==
    CASE data = <<"{", "t", "}">> -> TextDelta(0, "hi")
      [] data = <<"{", "b", "}">> -> BlockStart(0, "tool_use", 1, "read_file")
      [] data = <<"{", "s", "}">> -> MessageDelta(TRUE, 7, "tool_use")
      [] data = <<"{", "e", "}">> -> StreamError(TRUE, "overloaded")
      [] OTHER -> BadJsonLine

\* JSON.parse(data) as OpenAIStreamDelta, ansi.test.ts:216-221
OpenAIJson(data) ==
    CASE data = <<"{", "t", "}">> -> Chunk("hi", << >>, "")
      [] data = <<"{", "b", "}">> -> Chunk("", <<ToolCallDelta(0, 1, "read_file", "")>>, "")
      [] data = <<"{", "s", "}">> -> Chunk("", << >>, "tool_calls")
      [] data = <<"{", "e", "}">> -> UsageChunk(3, 7)
      [] OTHER -> BadJsonLine

\* anthropic.ts:85-94, ansi.test.ts:212-221: what one line of text is to the
\* loop
ParseLine(provider, line) ==
    IF ~StartsWith(line, DataPrefix)
       THEN BaseLine
       ELSE LET data == Trim(SubSeq(line, Len(DataPrefix) + 1, Len(line)))
            IN  IF data = DoneMarker
                   THEN DoneLine
                   ELSE IF provider = "anthropic" THEN AnthropicJson(data)
                                                  ELSE OpenAIJson(data)

\* buffer.split("\n")
RECURSIVE Split(_)
Split(text) ==
    IF \A i \in 1..Len(text) : text[i] # NL
       THEN <<text>>
       ELSE LET i == CHOOSE k \in 1..Len(text) :
                         text[k] = NL /\ \A j \in 1..(k - 1) : text[j] # NL
            IN  <<SubSeq(text, 1, i - 1)>> \o Split(SubSeq(text, i + 1, Len(text)))

\* anthropic.ts:81-82: lines.pop() takes the last piece off; what is left
\* are the lines, and the piece is the new buffer
Lines(pieces) == SubSeq(pieces, 1, Len(pieces) - 1)
Popped_Dropped(pieces) == << >>
Popped(pieces) == pieces[Len(pieces)]

\* The locals of send while it reads.
ReadState(wire, map, inTok, outTok, events, returned) ==
    [wire |-> wire, map |-> map, inTok |-> inTok, outTok |-> outTok, events |-> events,
     returned |-> returned]

\* anthropic.ts:84-172, the body of the for loop for one line
AnthropicLine(st, line) ==
    IF Skipped(line)
       THEN [st EXCEPT !.wire = Append(@, line)]
       ELSE LET started == AnthropicBlockStart(st.map, line)
                fed == AnthropicJsonDelta(started, line)
            IN  ReadState(Append(st.wire, line),
                          AnthropicBlockStop(fed, line),
                          AnthropicInputTokens(st.inTok, line),
                          AnthropicOutputTokens(st.outTok, line),
                          st.events \o AnthropicText(line) \o AnthropicToolUse(fed, line)
                              \o AnthropicStop(line) \o AnthropicError(line),
                          AnthropicReturns(line))

\* ansi.test.ts:211-288, the body of the for loop for one line
OpenAILine(st, line) ==
    IF Skipped(line)
       THEN [st EXCEPT !.wire = Append(@, line)]
       ELSE LET built == OpenAIToolCalls(st.map, IF line.hasChoice THEN line.toolCalls
                                                 ELSE << >>)
            IN  ReadState(Append(st.wire, line),
                          OpenAIBuildersAfter(built, line),
                          st.inTok, st.outTok,
                          st.events \o OpenAIText(line) \o OpenAIFinish(built, line)
                              \o OpenAIUsage(line),
                          FALSE)

\* anthropic.ts:84, ansi.test.ts:211: the for loop, left by the return of
\* anthropic.ts:170
RECURSIVE ForLines(_, _, _)
ForLines(provider, st, lines) ==
    IF lines = << >> \/ st.returned
       THEN st
       ELSE ForLines(provider,
                     IF provider = "anthropic"
                        THEN AnthropicLine(st, ParseLine(provider, Head(lines)))
                        ELSE OpenAILine(st, ParseLine(provider, Head(lines))),
                     Tail(lines))

\* The bodies: up to MaxBodyLines whole lines, then nothing or a line the
\* backend has not ended.
Data(json) == DataPrefix \o json
LineTexts ==
    { << >>,
      Data(<<"{", "t", "}">>),
      Data(<<"{", "t", "}", "\r">>),
      Data(<<"{", "b", "}">>),
      Data(<<"{", "s", "}">>),
      Data(<<"{", "e", "}">>),
      Data(DoneMarker) }
OpenLines == { << >>, Data(<<"{", "t">>), Data(<<"{", "s", "}">>) }

RECURSIVE Joined(_)
Joined(lines) ==
    IF lines = << >> THEN << >> ELSE Head(lines) \o <<NL>> \o Joined(Tail(lines))

Bodies ==
    { Joined(lines) \o open :
        lines \in UNION { [1..n -> LineTexts] : n \in 0..MaxBodyLines },
        open \in OpenLines }

ReaderIdle ==
    /\ wireBytes = << >>
    /\ bytesRead = 0
    /\ buffer = << >>
    /\ lineCarried = FALSE

\* anthropic.ts:70-74: the locals before the first read
ReaderInit ==
    /\ AdapterInit
    /\ wireBytes \in Bodies
    /\ bytesRead = 0
    /\ buffer = << >>
    /\ lineCarried = FALSE

\* anthropic.ts:77-172, ansi.test.ts:204-288: one pass of the while loop,
\* reader.read() delivering the next n bytes
ReadChunk(n) ==
    /\ aPc = "reading"
    /\ bytesRead + n <= Len(wireBytes)
    /\ LET value == SubSeq(wireBytes, bytesRead + 1, bytesRead + n)
           pieces == Split(buffer \o value)
           st == ForLines(aProvider,
                          ReadState(aWire, aToolMap, aInputTokens, aOutputTokens, aEvents,
                                    FALSE),
                          Lines(pieces))
       IN  /\ bytesRead' = bytesRead + n
           /\ buffer' = Popped(pieces)
           /\ lineCarried' = (buffer # << >> /\ Len(pieces) > 1)
           /\ aWire' = st.wire
           /\ aToolMap' = st.map
           /\ aInputTokens' = st.inTok
           /\ aOutputTokens' = st.outTok
           /\ aEvents' = st.events
           /\ aPc' = IF st.returned THEN "ended" ELSE "reading"
    /\ UNCHANGED <<aProvider, aResp, aBody, wireBytes, ctxVars, loopVars>>

\* anthropic.ts:77-78: done, once every byte has been delivered
BodyDone == bytesRead = Len(wireBytes) /\ ReadDone

ReaderNext ==
    \/ Send(HttpResponse(200, TRUE, ""))
    \/ \E n \in 1..MaxChunk : ReadChunk(n)
    \/ BodyDone

(***************************************************************************)
(* Agent Loop, src/src/repl.ts:117-253                                     *)
(***************************************************************************)

MAX_ITERATIONS == 20

DANGEROUS_TOOLS == {"exec", "write_file"}

\* The names a model may ask for, and those the registry holds when one is
\* supplied (write_file is dangerous and, here, not registered).
ToolNames == {"read_file", "exec", "write_file"}
RegisteredTools == {"read_file", "exec"}

\* repl.ts:140  while (maxIterations-- > 0)
LoopContinues_OneMore(n) == n >= 0
LoopContinues(n) == n > 0

\* repl.ts:172-179
AssistantContent_TextLast(chunks, blocks) ==
    blocks \o (IF Len(chunks) > 0 THEN <<TextBlock(JoinChunks(chunks))>> ELSE << >>)
AssistantContent(chunks, blocks) ==
    (IF Len(chunks) > 0 THEN <<TextBlock(JoinChunks(chunks))>> ELSE << >>) \o blocks

\* repl.ts:181-186
CommitAssistant_Always(msgs, chunks, blocks) ==
    Append(msgs, BlockMessage("assistant", AssistantContent(chunks, blocks)))
CommitAssistant(msgs, chunks, blocks) ==
    IF Len(AssistantContent(chunks, blocks)) > 0
        THEN Append(msgs, BlockMessage("assistant", AssistantContent(chunks, blocks)))
        ELSE msgs

\* repl.ts:166-167: an error event throws, nothing is appended
MessagesAfterError_Commit(msgs, chunks, blocks) == CommitAssistant(msgs, chunks, blocks)
MessagesAfterError_Rollback(msgs, chunks, blocks) == SubSeq(msgs, 1, Len(msgs) - 1)
MessagesAfterError(msgs, chunks, blocks) == msgs

\* repl.ts:189
TurnComplete_AnyToolUse(blocks, reason) == Len(blocks) = 0
TurnComplete(blocks, reason) == Len(blocks) = 0 \/ reason # "tool_use"

\* repl.ts:201  toolRegistry?.get(block.name)
ToolFound_NoRegistryCheck(e, name) == name \in RegisteredTools
ToolFound(e, name) == e.registry /\ name \in RegisteredTools

\* repl.ts:203-211
UnknownToolResults_None(block) == << >>
UnknownToolResults(block) ==
    <<ToolResultBlock(block.id, "Unknown tool: " \o block.name, TRUE)>>

\* repl.ts:215-216: confirmTool is awaited for this block
AsksConfirmation(e, name) == e.confirm # "none" /\ name \in DANGEROUS_TOOLS

\* repl.ts:217-226
DeniedResults(block) ==
    <<ToolResultBlock(block.id, "Tool execution denied by user.", TRUE)>>

\* repl.ts:230-247: tool.execute returned "done" or threw Error("boom")
ExecuteResults_NotError(e, block) ==
    IF block.name \in e.throws
        THEN <<ToolResultBlock(block.id, "boom", FALSE)>>
        ELSE <<ToolResultBlock(block.id, "done", FALSE)>>
ExecuteResults(e, block) ==
    IF block.name \in e.throws
        THEN <<ToolResultBlock(block.id, "boom", TRUE)>>
        ELSE <<ToolResultBlock(block.id, "done", FALSE)>>

\* repl.ts:230-231: execute is invoked for this block
Executes_Denied(e, block) == block.type = "tool_use" /\ ToolFound(e, block.name)
Executes(e, block) ==
    /\ block.type = "tool_use"
    /\ ToolFound(e, block.name)
    /\ ~(AsksConfirmation(e, block.name) /\ e.confirm = "deny")

\* repl.ts:196-248, the body of the for loop for one block
ToolResultsFor(e, block) ==
    IF block.type # "tool_use" THEN << >>
    ELSE IF ~ToolFound(e, block.name) THEN UnknownToolResults(block)
    ELSE IF AsksConfirmation(e, block.name) /\ e.confirm = "deny" THEN DeniedResults(block)
    ELSE ExecuteResults(e, block)

(***************************************************************************)
(* The environment of the loop: the provider behind streamMessage, the     *)
(* tool registry and the caller's confirmTool.                             *)
(***************************************************************************)

MaxTurns == 2
MaxEvents == 4

\* A provider that answers every call with tool calls and stop reason
\* tool_use (ids are assigned when the events are delivered).
AlwaysToolScripts ==
    { <<ToolUseEvent(0, "read_file", << >>), StopEvent("tool_use"), UsageEvent(3, 7)>>,
      <<TextEvent("a"), ToolUseEvent(0, "exec", << >>), TextEvent("b"),
        ToolUseEvent(0, "write_file", << >>), StopEvent("tool_use"), UsageEvent(3, 7)>> }

\* registry: a ToolRegistry was supplied; throws: the registered tools whose
\* execute fails; confirm: no confirmTool, or one that allows / denies;
\* script: << >> for a provider free to answer anything, else the answer the
\* provider gives to every call.
Envs ==
    { [registry |-> FALSE, throws |-> {}, confirm |-> "none", script |-> s] :
          s \in {<< >>} \cup AlwaysToolScripts }
    \cup [registry : {TRUE}, throws : {{}, {"read_file"}},
          confirm : {"none", "allow", "deny"}, script : {<< >>} \cup AlwaysToolScripts]

NoEvent == BaseEvent

\* The events a free provider may yield next.
FreeEvents(id) ==
    {TextEvent("a"), UsageEvent(3, 7), ErrorEvent("overloaded")}
    \cup { ToolUseEvent(id, n, << >>) : n \in ToolNames }
    \cup { StopEvent(r) : r \in {"end_turn", "tool_use"} }

\* The events the provider may yield as the next one of the current call.
Offered ==
    IF env.script = << >>
        THEN IF freeEvents < MaxEvents THEN FreeEvents(nextId) ELSE {}
        ELSE IF evCount < Len(env.script)
                THEN { IF env.script[evCount + 1].type = "tool_use"
                          THEN [env.script[evCount + 1] EXCEPT !.id = nextId]
                          ELSE env.script[evCount + 1] }
                ELSE {}

\* The provider's sequence may end here.
StreamMayEnd == env.script = << >> \/ evCount = Len(env.script)

LoopIdle ==
    /\ env = [registry |-> FALSE, throws |-> {}, confirm |-> "none", script |-> << >>]
    /\ messages = << >>
    /\ totalInputTokens = 0
    /\ totalOutputTokens = 0
    /\ turns = 0
    /\ pc = "idle"
    /\ maxIterations = 0
    /\ contentBlocks = << >>
    /\ textChunks = << >>
    /\ stopReason = "end_turn"
    /\ toolResults = << >>
    /\ blockIdx = 1
    /\ outcome = "none"
    /\ raisedError = ""
    /\ lastEvent = NoEvent
    /\ callEvents = << >>
    /\ evCount = 0
    /\ provCalls = 0
    /\ toolExecs = 0
    /\ turnsStarted = 0
    /\ freeEvents = 0
    /\ nextId = 1
    /\ streamsOpen = 0
    /\ confirmed = << >>
    /\ executed = << >>
    /\ inFlight = << >>
    /\ observed = << >>
    /\ systemPrompt = None
    /\ lastCommand = "none"
    /\ contextConfig = DefaultContextConfig
    /\ notified = << >>

\* createConversation, repl.ts:96-104
LoopInit ==
    /\ env \in Envs
    /\ messages = << >>
    /\ totalInputTokens = 0
    /\ totalOutputTokens = 0
    /\ turns = 0
    /\ pc = "idle"
    /\ maxIterations = 0
    /\ contentBlocks = << >>
    /\ textChunks = << >>
    /\ stopReason = "end_turn"
    /\ toolResults = << >>
    /\ blockIdx = 1
    /\ outcome = "none"
    /\ raisedError = ""
    /\ lastEvent = NoEvent
    /\ callEvents = << >>
    /\ evCount = 0
    /\ provCalls = 0
    /\ toolExecs = 0
    /\ turnsStarted = 0
    /\ freeEvents = 0
    /\ nextId = 1
    /\ streamsOpen = 0
    /\ confirmed = << >>
    /\ executed = << >>
    /\ inFlight = << >>
    /\ observed = << >>
    /\ systemPrompt = None
    /\ lastCommand = "none"
    /\ contextConfig = DefaultContextConfig
    /\ notified = << >>

\* runAgentLoop has returned or thrown: its locals are gone.
LocalsGone ==
    /\ maxIterations' = 0
    /\ contentBlocks' = << >>
    /\ textChunks' = << >>
    /\ stopReason' = "end_turn"
    /\ toolResults' = << >>
    /\ blockIdx' = 1

\* sendMessage, repl.ts:117-122, up to the first test of the while loop
SendMessage(userText) ==
    /\ pc = "idle"
    /\ turnsStarted < MaxTurns
    /\ messages' = Append(messages, StringMessage("user", userText))
    /\ maxIterations' = MAX_ITERATIONS
    /\ pc' = "loop"
    /\ outcome' = "none"
    /\ raisedError' = ""
    /\ lastEvent' = NoEvent
    /\ callEvents' = << >>
    /\ evCount' = 0
    /\ provCalls' = 0
    /\ toolExecs' = 0
    /\ turnsStarted' = turnsStarted + 1
    /\ lastCommand' = "message"
    /\ UNCHANGED <<env, systemPrompt, managedVars,
                   totalInputTokens, totalOutputTokens, turns, contentBlocks,
                   textChunks, stopReason, toolResults, blockIdx, freeEvents, nextId,
                   streamsOpen, toolVars, notLoopVars>>

\* repl.ts:140-145: the loop test passes, the locals are reset and
\* streamMessage is called
CallProvider ==
    /\ pc = "loop"
    /\ LoopContinues(maxIterations)
    /\ maxIterations' = maxIterations - 1
    /\ contentBlocks' = << >>
    /\ textChunks' = << >>
    /\ stopReason' = "end_turn"
    /\ pc' = "stream"
    /\ lastEvent' = NoEvent
    /\ callEvents' = << >>
    /\ evCount' = 0
    /\ provCalls' = provCalls + 1
    /\ streamsOpen' = streamsOpen + 1
    /\ UNCHANGED <<env, replVars, managedVars,
                   messages, totalInputTokens, totalOutputTokens, turns, toolResults,
                   blockIdx, outcome, raisedError, toolExecs, turnsStarted, freeEvents,
                   nextId, toolVars, notLoopVars>>

\* repl.ts:140, 253 and 123: the loop test fails, runAgentLoop returns and
\* sendMessage counts the turn
LoopExit ==
    /\ pc = "loop"
    /\ ~LoopContinues(maxIterations)
    /\ LocalsGone
    /\ turns' = turns + 1
    /\ pc' = "idle"
    /\ outcome' = "returned"
    /\ UNCHANGED <<env, replVars, managedVars,
                   messages, totalInputTokens, totalOutputTokens, raisedError,
                   lastEvent, evCount, callEvents, provCalls, toolExecs, turnsStarted, freeEvents,
                   nextId, streamsOpen, toolVars, notLoopVars>>

\* The provider yields e as the next event of the call.
Yields(e) ==
    /\ pc = "stream"
    /\ e \in Offered
    /\ lastEvent' = e
    /\ callEvents' = Append(callEvents, e)
    /\ evCount' = evCount + 1
    /\ freeEvents' = IF env.script = << >> THEN freeEvents + 1 ELSE freeEvents
    /\ nextId' = IF e.type = "tool_use" THEN nextId + 1 ELSE nextId

\* repl.ts:147-150
OnText(e) ==
    /\ e.type = "text"
    /\ Yields(e)
    /\ textChunks' = Append(textChunks, e.text)
    /\ UNCHANGED <<env, replVars, managedVars,
                   messages, totalInputTokens, totalOutputTokens, turns, pc,
                   maxIterations, contentBlocks, stopReason, toolResults, blockIdx, outcome,
                   raisedError, provCalls, toolExecs, turnsStarted, streamsOpen, toolVars,
                   notLoopVars>>

\* repl.ts:151-158
OnToolUse(e) ==
    /\ e.type = "tool_use"
    /\ Yields(e)
    /\ contentBlocks' = Append(contentBlocks, ToolUseBlock(e.id, e.name, e.input))
    /\ UNCHANGED <<env, replVars, managedVars,
                   messages, totalInputTokens, totalOutputTokens, turns, pc,
                   maxIterations, textChunks, stopReason, toolResults, blockIdx, outcome,
                   raisedError, provCalls, toolExecs, turnsStarted, streamsOpen, toolVars,
                   notLoopVars>>

\* repl.ts:160-161  state.total...Tokens += event.usage....Tokens
AddUsage_Latest(total, tokens) == tokens
AddUsage(total, tokens) == total + tokens

\* repl.ts:159-162
OnUsage(e) ==
    /\ e.type = "usage"
    /\ Yields(e)
    /\ totalInputTokens' = AddUsage(totalInputTokens, e.inputTokens)
    /\ totalOutputTokens' = AddUsage(totalOutputTokens, e.outputTokens)
    /\ UNCHANGED <<env, replVars, managedVars,
                   messages, turns, pc, maxIterations, contentBlocks, textChunks,
                   stopReason, toolResults, blockIdx, outcome, raisedError, provCalls,
                   toolExecs, turnsStarted, streamsOpen, toolVars, notLoopVars>>

\* repl.ts:163-165
OnStop(e) ==
    /\ e.type = "stop"
    /\ Yields(e)
    /\ stopReason' = e.stopReason
    /\ UNCHANGED <<env, replVars, managedVars,
                   messages, totalInputTokens, totalOutputTokens, turns, pc,
                   maxIterations, contentBlocks, textChunks, toolResults, blockIdx, outcome,
                   raisedError, provCalls, toolExecs, turnsStarted, streamsOpen, toolVars,
                   notLoopVars>>

\* repl.ts:166-167: throw new Error(event.error); sendMessage raises and
\* state.turns is not incremented (repl.ts:122-123)
OnError(e) ==
    /\ e.type = "error"
    /\ Yields(e)
    /\ messages' = MessagesAfterError(messages, textChunks, contentBlocks)
    /\ LocalsGone
    /\ pc' = "idle"
    /\ outcome' = "raised"
    /\ raisedError' = e.error
    /\ streamsOpen' = streamsOpen - 1
    /\ UNCHANGED <<env, replVars, managedVars,
                   totalInputTokens, totalOutputTokens, turns, provCalls, toolExecs,
                   turnsStarted, toolVars, notLoopVars>>

\* repl.ts:171-191 and 123: the sequence ended, the assistant message is
\* built and appended and there is nothing to execute
EndTurn ==
    /\ pc = "stream"
    /\ StreamMayEnd
    /\ TurnComplete(contentBlocks, stopReason)
    /\ messages' = CommitAssistant(messages, textChunks, contentBlocks)
    /\ LocalsGone
    /\ turns' = turns + 1
    /\ pc' = "idle"
    /\ outcome' = "returned"
    /\ lastEvent' = NoEvent
    /\ callEvents' = << >>
    /\ evCount' = 0
    /\ streamsOpen' = streamsOpen - 1
    /\ UNCHANGED <<env, replVars, managedVars,
                   totalInputTokens, totalOutputTokens, raisedError, provCalls,
                   toolExecs, turnsStarted, freeEvents, nextId, toolVars, notLoopVars>>

\* repl.ts:171-194: the sequence ended, the assistant message is appended
\* and the tool calls are to be executed
BeginTools ==
    /\ pc = "stream"
    /\ StreamMayEnd
    /\ ~TurnComplete(contentBlocks, stopReason)
    /\ messages' = CommitAssistant(messages, textChunks, contentBlocks)
    /\ toolResults' = << >>
    /\ blockIdx' = 1
    /\ pc' = "tools"
    /\ lastEvent' = NoEvent
    /\ callEvents' = << >>
    /\ evCount' = 0
    /\ streamsOpen' = streamsOpen - 1
    /\ UNCHANGED <<env, replVars, managedVars,
                   totalInputTokens, totalOutputTokens, turns, maxIterations,
                   contentBlocks, textChunks, stopReason, outcome, raisedError, provCalls,
                   toolExecs, turnsStarted, freeEvents, nextId, toolVars, notLoopVars>>

\* repl.ts:231  await tool.execute(...): the loop goes on only once the
\* execution it started has settled
Awaited_Not(flying) == TRUE
Awaited(flying) == flying = << >>

\* repl.ts:215-216: the record of the confirmTool call made for this block
ConfirmationsFor(e, block) ==
    IF block.type = "tool_use" /\ ToolFound(e, block.name) /\ AsksConfirmation(e, block.name)
        THEN <<[id |-> block.id, name |-> block.name, answer |-> e.confirm = "allow"]>>
        ELSE << >>

\* What an observer of the for loop records: the caller's callbacks
\* (onToolCall, onToolResult, confirmTool) and Tool.execute, each with the
\* block it is called for; isError is the third argument of onToolResult.
Notice(kind, block, isError) ==
    [kind |-> kind, id |-> block.id, name |-> block.name, isError |-> isError]

\* repl.ts:199-231: the calls of one pass up to the result of an unknown or
\* denied call (onToolResult(..., true), repl.ts:204 and 219) or to the
\* invocation of execute
StartNotices(e, block) ==
    <<Notice("onToolCall", block, FALSE)>>
    \o (IF ToolFound(e, block.name) /\ AsksConfirmation(e, block.name)
            THEN <<Notice("confirmTool", block, FALSE)>> ELSE << >>)
    \o (IF Executes(e, block)
            THEN <<Notice("execute", block, FALSE)>>
            ELSE <<Notice("onToolResult", block, TRUE)>>)

\* repl.ts:232 onToolResult(name, result, false) and repl.ts:240
\* onToolResult(name, errMsg, true)
SettleNotices_NeverError(e, block) == <<Notice("onToolResult", block, FALSE)>>
SettleNotices(e, block) == <<Notice("onToolResult", block, block.name \in e.throws)>>

\* repl.ts:196-231: one pass of the for loop over contentBlocks, up to the
\* result of an unknown or denied call or to the invocation of execute
RunTool ==
    /\ pc = "tools"
    /\ blockIdx <= Len(contentBlocks)
    /\ Awaited(inFlight)
    /\ confirmed' = confirmed \o ConfirmationsFor(env, contentBlocks[blockIdx])
    /\ observed' = observed \o StartNotices(env, contentBlocks[blockIdx])
    /\ IF Executes(env, contentBlocks[blockIdx])
          THEN /\ executed' = Append(executed, contentBlocks[blockIdx].id)
               /\ inFlight' = Append(inFlight, contentBlocks[blockIdx].id)
               /\ toolExecs' = toolExecs + 1
               /\ UNCHANGED <<toolResults, blockIdx>>
          ELSE /\ toolResults' = toolResults \o ToolResultsFor(env, contentBlocks[blockIdx])
               /\ blockIdx' = blockIdx + 1
               /\ UNCHANGED <<executed, inFlight, toolExecs>>
    /\ UNCHANGED <<env, replVars, managedVars,
                   messages, totalInputTokens, totalOutputTokens, turns, pc,
                   maxIterations, contentBlocks, textChunks, stopReason, outcome,
                   raisedError, lastEvent, evCount, callEvents, provCalls, turnsStarted, freeEvents,
                   nextId, streamsOpen, notLoopVars>>

\* repl.ts:231-248: the execution settles, by returning or by throwing, its
\* result is pushed and the pass of the for loop ends
ToolSettles ==
    /\ pc = "tools"
    /\ inFlight # << >>
    /\ inFlight' = Tail(inFlight)
    /\ toolResults' = toolResults \o ExecuteResults(env, contentBlocks[blockIdx])
    /\ observed' = observed \o SettleNotices(env, contentBlocks[blockIdx])
    /\ blockIdx' = blockIdx + 1
    /\ UNCHANGED <<env, replVars, managedVars,
                   messages, totalInputTokens, totalOutputTokens, turns, pc,
                   maxIterations, contentBlocks, textChunks, stopReason, outcome,
                   raisedError, lastEvent, evCount, callEvents, provCalls, toolExecs, turnsStarted,
                   freeEvents, nextId, streamsOpen, confirmed, executed, notLoopVars>>

\* repl.ts:250-252: the tool results are appended as one user message and
\* the iteration ends, its block-scoped locals with it
AppendToolResults ==
    /\ pc = "tools"
    /\ blockIdx > Len(contentBlocks)
    /\ messages' = Append(messages, BlockMessage("user", toolResults))
    /\ toolResults' = << >>
    /\ blockIdx' = 1
    /\ contentBlocks' = << >>
    /\ textChunks' = << >>
    /\ stopReason' = "end_turn"
    /\ pc' = "loop"
    /\ confirmed' = << >>
    /\ executed' = << >>
    /\ observed' = << >>
    /\ UNCHANGED <<env, replVars, managedVars,
                   totalInputTokens, totalOutputTokens, turns, maxIterations, outcome,
                   raisedError, lastEvent, evCount, callEvents, provCalls, toolExecs, turnsStarted,
                   freeEvents, nextId, streamsOpen, inFlight, notLoopVars>>

LoopNext ==
    \/ SendMessage("hi")
    \/ CallProvider
    \/ LoopExit
    \/ \E e \in Offered : OnText(e)
    \/ \E e \in Offered : OnToolUse(e)
    \/ \E e \in Offered : OnUsage(e)
    \/ \E e \in Offered : OnStop(e)
    \/ \E e \in Offered : OnError(e)
    \/ EndTurn
    \/ BeginTools
    \/ RunTool
    \/ ToolSettles
    \/ AppendToolResults

\* createConversation, repl.ts:96-104
createConversation(prompt) ==
    [messages |-> << >>, systemPrompt |-> prompt, totalInputTokens |-> 0,
     totalOutputTokens |-> 0, turns |-> 0]

\* The ConversationState the REPL holds, repl.ts:88-94
ConversationState ==
    [messages |-> messages, systemPrompt |-> systemPrompt,
     totalInputTokens |-> totalInputTokens, totalOutputTokens |-> totalOutputTokens,
     turns |-> turns]

\* The environments of the REPL's conversations: a free provider with a
\* registry and a confirmTool that allows, and a provider that always asks
\* for a tool.
ReplEnvs ==
    { [registry |-> TRUE, throws |-> {}, confirm |-> "allow", script |-> << >>],
      [registry |-> FALSE, throws |-> {}, confirm |-> "none",
       script |-> <<ToolUseEvent(0, "read_file", << >>), StopEvent("tool_use"),
                    UsageEvent(3, 7)>>] }

\* main.ts:166-171: the REPL starts with createConversation(systemPrompt)
ReplInit ==
    /\ env \in ReplEnvs
    /\ messages = << >>
    /\ totalInputTokens = 0
    /\ totalOutputTokens = 0
    /\ turns = 0
    /\ pc = "idle"
    /\ maxIterations = 0
    /\ contentBlocks = << >>
    /\ textChunks = << >>
    /\ stopReason = "end_turn"
    /\ toolResults = << >>
    /\ blockIdx = 1
    /\ outcome = "none"
    /\ raisedError = ""
    /\ lastEvent = NoEvent
    /\ callEvents = << >>
    /\ evCount = 0
    /\ provCalls = 0
    /\ toolExecs = 0
    /\ turnsStarted = 0
    /\ freeEvents = 0
    /\ nextId = 1
    /\ streamsOpen = 0
    /\ confirmed = << >>
    /\ executed = << >>
    /\ inFlight = << >>
    /\ observed = << >>
    /\ systemPrompt \in {None, Some("sys!")}
    /\ lastCommand = "none"
    /\ contextConfig = DefaultContextConfig
    /\ notified = << >>

\* main.ts:213  state.messages.length = 0
ClearedMessages_Keep(msgs) == msgs
ClearedMessages(msgs) == << >>

\* main.ts:212-218, the clear command; the REPL reads a command only when no
\* sendMessage is running
Clear ==
    /\ pc = "idle"
    /\ messages' = ClearedMessages(messages)
    /\ turns' = 0
    /\ totalInputTokens' = 0
    /\ totalOutputTokens' = 0
    /\ lastCommand' = "clear"
    /\ UNCHANGED <<env, systemPrompt, managedVars,
                   pc, maxIterations, contentBlocks, textChunks,
                   stopReason, toolResults, blockIdx, outcome, raisedError, lastEvent, evCount,
                   callEvents, provCalls, toolExecs, turnsStarted, freeEvents, nextId,
                   streamsOpen, toolVars, notLoopVars>>

ReplNext == LoopNext \/ Clear

(***************************************************************************)
(* The loop with the Context Manager in front of every provider call. The  *)
(* sendMessage of src/src/repl.ts takes no contextConfig and no            *)
(* onContextTruncation, which main.ts:277 and 310 pass to it: the step is   *)
(* modelled from spec.md, section 4.3 step 1, "Run Context Manager over     *)
(* current history; if it drops messages, notify the caller with the       *)
(* dropped count and replace history with the truncated result before      *)
(* sending", around the manageContext of src/src/context.ts.               *)
(***************************************************************************)

\* repl.ts:137  toolRegistry?.apiFormat(), for the conversations below,
\* which have no registry
LoopTools(e) == None

\* The history the provider is called with.
ManagedHistory_Keep(msgs, result) == msgs
ManagedHistory(msgs, result) == IF result.dropped > 0 THEN result.messages ELSE msgs

\* The onContextTruncation calls made for one result.
TruncationNotices(result) == IF result.dropped > 0 THEN <<result.dropped>> ELSE << >>

ManagedConfigs ==
    { [maxContextTokens |-> 8, strategy |-> "truncate", reservedTokens |-> 0],
      [maxContextTokens |-> 30, strategy |-> "truncate", reservedTokens |-> 0],
      [maxContextTokens |-> 30, strategy |-> "error", reservedTokens |-> 0],
      [maxContextTokens |-> 8, strategy |-> "truncate", reservedTokens |-> 8] }

ManagedEnvs ==
    { [registry |-> FALSE, throws |-> {}, confirm |-> "none", script |-> s] :
          s \in { << >>,
                  <<ToolUseEvent(0, "read_file", << >>), StopEvent("tool_use"),
                    UsageEvent(3, 7)>> } }

\* What the user sends: 1 token, or 10 tokens.
ManagedTexts == {"hi", "0123456789012345678901234567890123456789"}

\* createConversation, and the ContextConfig of main.ts:146
ManagedInit ==
    /\ env \in ManagedEnvs
    /\ messages = << >>
    /\ totalInputTokens = 0
    /\ totalOutputTokens = 0
    /\ turns = 0
    /\ pc = "idle"
    /\ maxIterations = 0
    /\ contentBlocks = << >>
    /\ textChunks = << >>
    /\ stopReason = "end_turn"
    /\ toolResults = << >>
    /\ blockIdx = 1
    /\ outcome = "none"
    /\ raisedError = ""
    /\ lastEvent = NoEvent
    /\ callEvents = << >>
    /\ evCount = 0
    /\ provCalls = 0
    /\ toolExecs = 0
    /\ turnsStarted = 0
    /\ freeEvents = 0
    /\ nextId = 1
    /\ streamsOpen = 0
    /\ confirmed = << >>
    /\ executed = << >>
    /\ inFlight = << >>
    /\ observed = << >>
    /\ systemPrompt = None
    /\ lastCommand = "none"
    /\ contextConfig \in ManagedConfigs
    /\ notified = << >>

\* The Context Manager returns and streamMessage is called with the history
\* it left.
ManagedCallProvider ==
    /\ pc = "loop"
    /\ LoopContinues(maxIterations)
    /\ manageContext(messages, contextConfig, systemPrompt, LoopTools(env)).status = "returned"
    /\ ctxIn' = [messages |-> messages, config |-> contextConfig,
                 systemPrompt |-> systemPrompt, tools |-> LoopTools(env)]
    /\ ctxOp' = "manageContext"
    /\ ctxOut' = manageContext(messages, contextConfig, systemPrompt, LoopTools(env))
    /\ notified' = TruncationNotices(ctxOut')
    /\ messages' = ManagedHistory(messages, ctxOut')
    /\ maxIterations' = maxIterations - 1
    /\ contentBlocks' = << >>
    /\ textChunks' = << >>
    /\ stopReason' = "end_turn"
    /\ pc' = "stream"
    /\ lastEvent' = NoEvent
    /\ callEvents' = << >>
    /\ evCount' = 0
    /\ provCalls' = provCalls + 1
    /\ streamsOpen' = streamsOpen + 1
    /\ UNCHANGED <<env, replVars, contextConfig, totalInputTokens, totalOutputTokens, turns,
                   toolResults, blockIdx, outcome, raisedError, toolExecs, turnsStarted,
                   freeEvents, nextId, toolVars, adapterVars, readerVars>>

\* The Context Manager throws (context.ts:142-144 and 157-160): the Error
\* leaves runAgentLoop and sendMessage, and streamMessage is not called.
ContextRaises ==
    /\ pc = "loop"
    /\ LoopContinues(maxIterations)
    /\ manageContext(messages, contextConfig, systemPrompt, LoopTools(env)).status = "threw"
    /\ ctxIn' = [messages |-> messages, config |-> contextConfig,
                 systemPrompt |-> systemPrompt, tools |-> LoopTools(env)]
    /\ ctxOp' = "manageContext"
    /\ ctxOut' = manageContext(messages, contextConfig, systemPrompt, LoopTools(env))
    /\ notified' = << >>
    /\ LocalsGone
    /\ pc' = "idle"
    /\ outcome' = "raised"
    /\ raisedError' = ctxOut'.error
    /\ UNCHANGED <<env, replVars, contextConfig, messages, totalInputTokens,
                   totalOutputTokens, turns, lastEvent, evCount, callEvents, provCalls,
                   toolExecs, turnsStarted, freeEvents, nextId, streamsOpen, toolVars,
                   adapterVars, readerVars>>

\* Without a registry no execution is ever started, so none settles.
ManagedNext ==
    \/ \E userText \in ManagedTexts : SendMessage(userText)
    \/ ManagedCallProvider
    \/ ContextRaises
    \/ LoopExit
    \/ \E e \in Offered : OnText(e)
    \/ \E e \in Offered : OnToolUse(e)
    \/ \E e \in Offered : OnUsage(e)
    \/ \E e \in Offered : OnStop(e)
    \/ \E e \in Offered : OnError(e)
    \/ EndTurn
    \/ BeginTools
    \/ RunTool
    \/ AppendToolResults

vars == <<ctxVars, adapterVars, readerVars, loopVars>>

InitCtx == CtxInit /\ AdapterIdle /\ ReaderIdle /\ LoopIdle
SpecCtx == InitCtx /\ [][CtxNext]_vars

InitAdapter == AdapterInit /\ ReaderIdle /\ CtxIdle /\ LoopIdle
SpecAdapter == InitAdapter /\ [][AdapterNext]_vars

InitReader == ReaderInit /\ CtxIdle /\ LoopIdle
SpecReader == InitReader /\ [][ReaderNext]_vars

Init == LoopInit /\ CtxIdle /\ AdapterIdle /\ ReaderIdle
Next == LoopNext
Spec == Init /\ [][Next]_vars

InitRepl == ReplInit /\ CtxIdle /\ AdapterIdle /\ ReaderIdle
SpecRepl == InitRepl /\ [][ReplNext]_vars

InitManaged == ManagedInit /\ CtxIdle /\ AdapterIdle /\ ReaderIdle
SpecManaged == InitManaged /\ [][ManagedNext]_vars

(***************************************************************************)
(* Claims about the Context Manager (SpecCtx)                              *)
(***************************************************************************)

CtxAvailable == AvailableTokens(ctxIn.config, ctxIn.systemPrompt, ctxIn.tools)

CtxTruncateReturned ==
    /\ ctxOp = "manageContext"
    /\ ctxIn.config.strategy = "truncate"
    /\ ctxOut.status = "returned"

\* C1 as stated: whenever manageContext returns under strategy 'truncate',
\* the estimated total of the returned messages is <= available, or the
\* original messages are returned unchanged with dropped = 0.
C1_WithinBudgetOrUnchanged ==
    CtxTruncateReturned =>
        \/ totalMessageTokens(ctxOut.messages) <= CtxAvailable
        \/ (ctxOut.messages = ctxIn.messages /\ ctxOut.dropped = 0)

\* C1 amended: whenever manageContext returns under strategy 'truncate', the
\* estimated total of the returned messages is <= available, or the original
\* messages are returned unchanged with dropped = 0, or the first message
\* alone exceeds available and the result is exactly that first message with
\* every other message dropped.
C1_WithinBudgetOrUnchangedOrFirstOnly ==
    CtxTruncateReturned =>
        \/ totalMessageTokens(ctxOut.messages) <= CtxAvailable
        \/ (ctxOut.messages = ctxIn.messages /\ ctxOut.dropped = 0)
        \/ /\ estimateTokens(ctxIn.messages[1]) > CtxAvailable
           /\ ctxOut.messages = <<ctxIn.messages[1]>>
           /\ ctxOut.dropped = Len(ctxIn.messages) - 1

\* manageContext dropped messages, kept more than the first one, and the
\* result fits the budget exactly or with room to spare.
C1_Witness ==
    /\ CtxTruncateReturned
    /\ ctxOut.dropped > 0
    /\ Len(ctxOut.messages) >= 2
    /\ totalMessageTokens(ctxIn.messages) > CtxAvailable
    /\ totalMessageTokens(ctxOut.messages) <= CtxAvailable

\* C2: whenever truncateMessages / manageContext drops messages from a list
\* of n messages, the result is the first message followed by a contiguous
\* suffix messages[k..n-1], 1 <= k <= n (here 1-based: k in 2..n+1), in the
\* original order.
C2_FirstPlusContiguousSuffix ==
    (ctxOut.status = "returned" /\ ctxOut.dropped > 0) =>
        LET n == Len(ctxIn.messages)
        IN  \E k \in 2..(n + 1) :
                ctxOut.messages = <<ctxIn.messages[1]>> \o SubSeq(ctxIn.messages, k, n)

\* Messages were dropped and a suffix of at least two messages was kept
\* behind the first one.
C2_Witness ==
    /\ ctxOut.status = "returned"
    /\ ctxOut.dropped > 0
    /\ Len(ctxOut.messages) >= 3
    /\ ctxOut.messages[2] # ctxOut.messages[3]

\* r is the ceiling of n / 4.
IsCeilQuarter(r, n) == 4 * r >= n /\ 4 * r < n + 4
Quarter(n) == CHOOSE r \in 0..n : IsCeilQuarter(r, n)

\* A text of n characters.
RECURSIVE Chars(_)
Chars(n) == IF n = 0 THEN "" ELSE "x" \o Chars(n - 1)

\* The sum of f over the elements of a sequence, from its last element.
RECURSIVE SumOver(_, _)
SumOver(f(_), seq) ==
    IF Len(seq) = 0 THEN 0
    ELSE SumOver(f, SubSeq(seq, 1, Len(seq) - 1)) + f(seq[Len(seq)])

\* C14 as stated reads a block as one text: the text of a text block, the
\* content of a tool_result block and, for a tool_use block, its serialized
\* input, alone or together with its name.
BlockAsOneText(b, withName) ==
    CASE b.type = "text" -> Quarter(Len(b.text))
      [] b.type = "tool_result" -> Quarter(Len(b.content)) + 10
      [] b.type = "tool_use" ->
            Quarter((IF withName THEN Len(b.name) ELSE 0) + StringifyLen(b.input)) + 10

\* The estimate of a block as the code computes it: a tool_use block counts
\* its name and its serialized input separately, each rounded up.
BlockEstimate(b) ==
    CASE b.type = "text" -> Quarter(Len(b.text))
      [] b.type = "tool_result" -> Quarter(Len(b.content)) + 10
      [] b.type = "tool_use" ->
            Quarter(Len(b.name)) + Quarter(StringifyLen(b.input)) + 10

MessageEstimate(m) ==
    IF m.isString THEN Quarter(Len(m.text)) ELSE SumOver(BlockEstimate, m.blocks)

Text25 == "abcdefghijklmnopqrstuvwxy"
Text100 == Text25 \o Text25 \o Text25 \o Text25
Text400 == Text100 \o Text100 \o Text100 \o Text100

C14_Examples ==
    /\ estimateTokens(StringMessage("user", "hello")) = 2
    /\ Len(Text400) = 400
    /\ estimateTokens(StringMessage("user", Text400)) = 100
    /\ estimateTokens(StringMessage("user", "")) = 0
    /\ \A n \in 0..17 : IsCeilQuarter(estimateTokens(StringMessage("user", Chars(n))), n)

\* C14 as stated: a plain-text message of n characters is estimated at
\* ceil(n/4); block content at the sum over blocks of ceil(len/4) of the
\* block's text plus 10 for each tool_use and tool_result block;
\* totalMessageTokens is the sum over messages.
C14_CeilOfBlockText ==
    ctxOp # "none" =>
        \A k \in 1..Len(ctxIn.messages) :
            LET m == ctxIn.messages[k]
            IN  IF m.isString THEN estimateTokens(m) = Quarter(Len(m.text))
                ELSE \E withName \in BOOLEAN :
                        estimateTokens(m)
                          = SumOver(LAMBDA b : BlockAsOneText(b, withName), m.blocks)

\* C14 amended: a plain-text message of n characters is estimated at
\* ceil(n/4) (5 -> 2, 400 -> 100, 0 -> 0); block content at the sum over
\* blocks of ceil(len/4) of the text of a text block, ceil(len/4) of the
\* content plus 10 for a tool_result block, and ceil(len(name)/4) +
\* ceil(len(JSON of input)/4) + 10 for a tool_use block; totalMessageTokens
\* is the sum over messages.
C14_CeilPerBlockPart ==
    /\ C14_Examples
    /\ ctxOp # "none" =>
          /\ \A k \in 1..Len(ctxIn.messages) :
                estimateTokens(ctxIn.messages[k]) = MessageEstimate(ctxIn.messages[k])
          /\ totalMessageTokens(ctxIn.messages) = SumOver(MessageEstimate, ctxIn.messages)
          /\ (ctxOut.status = "threw" /\ ctxOut.error = "exceeded") =>
                ctxOut.total = SumOver(MessageEstimate, ctxIn.messages)

\* 'hello' (2 tokens) and a read_file call with input {"path":"/tmp/x"}
\* (3 + 5 + 10 tokens) were reported as 20 estimated tokens.
C14_Witness ==
    /\ ctxOp = "manageContext"
    /\ ctxIn.messages
         = <<StringMessage("user", "hello"),
             BlockMessage("assistant",
                          <<ToolUseBlock(2, "read_file", << <<"path", "/tmp/x">> >>)>>)>>
    /\ ctxOut.status = "threw"
    /\ ctxOut.total = 20

CtxManaged == ctxOp = "manageContext" /\ CtxAvailable > 0
CtxTotal == SumOver(MessageEstimate, ctxIn.messages)
CtxOutTotal == SumOver(MessageEstimate, ctxOut.messages)

\* C15 as stated: with available > 0, manageContext returns the messages
\* unchanged with dropped = 0 whenever their total is <= available, and
\* whenever the total exceeds available under strategy 'truncate' it returns
\* dropped > 0 and a result whose total is <= available.
C15_UnchangedOrShortenedToFit ==
    CtxManaged =>
        /\ CtxTotal <= CtxAvailable => ctxOut = Returned(ctxIn.messages, 0)
        /\ (CtxTotal > CtxAvailable /\ ctxIn.config.strategy = "truncate") =>
              /\ ctxOut.status = "returned"
              /\ ctxOut.dropped > 0
              /\ CtxOutTotal <= CtxAvailable

\* C15 amended: with available > 0, manageContext returns the messages
\* unchanged with dropped = 0 whenever their total is <= available; whenever
\* the total exceeds available under strategy 'truncate' and the first
\* message alone fits it returns dropped > 0 and a result whose total is
\* <= available; when the first message alone exceeds available it returns
\* exactly that message, over budget, with dropped = n - 1.
C15_UnchangedOrShortenedOrFirstOnly ==
    CtxManaged =>
        /\ CtxTotal <= CtxAvailable => ctxOut = Returned(ctxIn.messages, 0)
        /\ (CtxTotal > CtxAvailable /\ ctxIn.config.strategy = "truncate") =>
              IF MessageEstimate(ctxIn.messages[1]) <= CtxAvailable
                 THEN /\ ctxOut.status = "returned"
                      /\ ctxOut.dropped > 0
                      /\ ctxOut.dropped = Len(ctxIn.messages) - Len(ctxOut.messages)
                      /\ CtxOutTotal <= CtxAvailable
                 ELSE ctxOut = Returned(<<ctxIn.messages[1]>>, Len(ctxIn.messages) - 1)

\* The boundary: a total equal to available came back unchanged under
\* strategy 'error'.
C15_Witness ==
    /\ CtxManaged
    /\ ctxIn.config.strategy = "error"
    /\ Len(ctxIn.messages) >= 2
    /\ CtxTotal = CtxAvailable
    /\ ctxOut = Returned(ctxIn.messages, 0)

\* C16: manageContext raises whenever maxContextTokens -
\* estimateSystemTokens(systemPrompt, tools) - reservedTokens <= 0, under
\* both strategies and for every message list, the empty one included, and
\* whatever the total of the messages.
C16_ExhaustedRaises ==
    (ctxOp = "manageContext" /\ CtxAvailable <= 0) =>
        /\ ctxOut.status = "threw"
        /\ ctxOut.error = "exhausted"
        /\ ctxOut.messages = << >>

\* manageContext raised for an empty message list with available = 0.
C16_Witness ==
    /\ ctxOp = "manageContext"
    /\ CtxAvailable = 0
    /\ ctxIn.messages = << >>
    /\ ctxOut.status = "threw"
    /\ ctxOut.error = "exhausted"

\* C17: under strategy 'error' with available > 0, manageContext raises
\* 'Context limit exceeded', reporting the estimated total and the available
\* tokens, if and only if the total exceeds available; otherwise it returns
\* the messages unchanged, never a shortened list.
C17_ErrorStrategyRaisesIffOver ==
    (CtxManaged /\ ctxIn.config.strategy = "error") =>
        IF CtxTotal > CtxAvailable
           THEN ctxOut = [status |-> "threw", messages |-> << >>, dropped |-> 0,
                          error |-> "exceeded", total |-> CtxTotal,
                          available |-> CtxAvailable, array |-> "none"]
           ELSE ctxOut = Returned(ctxIn.messages, 0)

\* Three messages over budget by one token under strategy 'error'.
C17_Witness ==
    /\ CtxManaged
    /\ ctxIn.config.strategy = "error"
    /\ Len(ctxIn.messages) = 3
    /\ CtxTotal = CtxAvailable + 1
    /\ ctxOut.status = "threw"
    /\ ctxOut.error = "exceeded"
    /\ ctxOut.total = CtxTotal
    /\ ctxOut.available = CtxAvailable

(***************************************************************************)
(* Claims about the Provider Adapter (SpecAdapter)                         *)
(***************************************************************************)

EventsOfType(events, t) == SelectSeq(events, LAMBDA e : e.type = t)

IsToolStart(line, i) ==
    /\ line.kind = "event" /\ line.type = "content_block_start"
    /\ line.cbType = "tool_use" /\ line.index = i
IsBlockStop(line, i) ==
    line.kind = "event" /\ line.type = "content_block_stop" /\ line.index = i
IsFragment(line, i) ==
    /\ line.kind = "event" /\ line.type = "content_block_delta"
    /\ line.deltaType = "input_json_delta" /\ line.index = i

\* The text of the input_json_delta fragments for index i among the lines
\* w[from..to], concatenated in arrival order.
RECURSIVE FragmentText(_, _, _, _)
FragmentText(w, from, to, i) ==
    IF from > to THEN ""
    ELSE (IF IsFragment(w[from], i) THEN w[from].partialJson ELSE "")
         \o FragmentText(w, from + 1, to, i)

ParsedOrEmpty(json) == IF JsonParse(json).ok THEN JsonParse(json).value ELSE << >>

\* Positions p < q of tool_use starts for index i; the latest of them.
ToolStartsBefore(w, q, i) == { p \in 1..(q - 1) : IsToolStart(w[p], i) }
LatestToolStart(w, q, i) ==
    CHOOSE p \in ToolStartsBefore(w, q, i) : \A r \in ToolStartsBefore(w, q, i) : r <= p

\* Line q is a content_block_stop for an index whose latest tool_use start
\* has not been stopped yet.
CompletesBlock(w, q) ==
    /\ w[q].kind = "event" /\ w[q].type = "content_block_stop" /\ w[q].index # NoIndex
    /\ ToolStartsBefore(w, q, w[q].index) # {}
    /\ \A r \in (LatestToolStart(w, q, w[q].index) + 1)..(q - 1) :
            ~IsBlockStop(w[r], w[q].index)

\* Line q is the first content_block_stop for its index that follows a
\* tool_use start for that index.
FirstStopAfterStart(w, q) ==
    /\ w[q].kind = "event" /\ w[q].type = "content_block_stop" /\ w[q].index # NoIndex
    /\ ToolStartsBefore(w, q, w[q].index) # {}
    /\ \A r \in 1..(q - 1) :
            IsBlockStop(w[r], w[q].index) => ToolStartsBefore(w, r, w[q].index) = {}

\* The tool_use events C7 as stated asks for: one per index, at the first
\* stop after a start, with all fragments received for the index so far.
RECURSIVE ToolUsesOncePerIndex(_, _)
ToolUsesOncePerIndex(w, q) ==
    IF q > Len(w) THEN << >>
    ELSE (IF FirstStopAfterStart(w, q)
             THEN LET i == w[q].index
                      p == LatestToolStart(w, q, i)
                  IN  <<ToolUseEvent(w[p].cbId, w[p].cbName,
                                     ParsedOrEmpty(FragmentText(w, 1, q, i)))>>
             ELSE << >>)
         \o ToolUsesOncePerIndex(w, q + 1)

\* The tool_use events of the amended C7: one per completed block, with the
\* fragments received for the index since that block started.
RECURSIVE ToolUsesPerBlock(_, _)
ToolUsesPerBlock(w, q) ==
    IF q > Len(w) THEN << >>
    ELSE (IF CompletesBlock(w, q)
             THEN LET i == w[q].index
                      p == LatestToolStart(w, q, i)
                  IN  <<ToolUseEvent(w[p].cbId, w[p].cbName,
                                     ParsedOrEmpty(FragmentText(w, p, q, i)))>>
             ELSE << >>)
         \o ToolUsesPerBlock(w, q + 1)

\* C7 as stated (block-oriented adapter): for any wire stream a tool_use
\* event for block index i is emitted exactly once, only when
\* content_block_stop for i arrives after a tool_use content_block_start for
\* i, with the parse of all input_json_delta fragments received for i.
C7_OncePerIndexAllFragments ==
    aProvider = "anthropic" =>
        EventsOfType(aEvents, "tool_use") = ToolUsesOncePerIndex(aWire, 1)

\* C7 amended: a tool_use event is emitted exactly once for every tool_use
\* block that completes, i.e. at each content_block_stop for an index i whose
\* latest tool_use content_block_start has not been stopped yet, and at no
\* other time; its input is the JSON parse ({} when it does not parse) of the
\* concatenation, in arrival order, of the input_json_delta fragments
\* received for i since that start. Fragments without the completion signal
\* yield no tool_use event.
C7_OncePerBlockFragmentsSinceStart ==
    aProvider = "anthropic" =>
        EventsOfType(aEvents, "tool_use") = ToolUsesPerBlock(aWire, 1)

\* The fragments {"path": and "/tmp/x"} followed by the completion signal
\* gave one tool_use event with input {path: "/tmp/x"}.
C7_Witness ==
    /\ aProvider = "anthropic"
    /\ Len(aWire) = 4
    /\ aWire[4] = BlockStop(0)
    /\ EventsOfType(aEvents, "tool_use")
         = <<ToolUseEvent(1, "read_file", << <<"path", "/tmp/x">> >>)>>

\* C8: for either adapter a non-success HTTP status or a missing response
\* body makes send yield exactly one event, of type error, and then end.
C8_TransportFailureOneError ==
    (aPc # "idle" /\ (~Ok(aResp) \/ ~aResp.hasBody)) =>
        /\ aPc = "ended"
        /\ Len(aEvents) = 1
        /\ aEvents[1].type = "error"
        /\ aWire = << >>

\* The delta-chunk adapter answered a 401 response.
C8_Witness ==
    /\ aProvider = "openai"
    /\ aResp.status = 401
    /\ aPc = "ended"
    /\ aEvents = <<ErrorEvent("API error 401: unauthorized")>>

\* C9: in every event sequence of one model call at most one error event
\* occurs, it is the last event, and the sequence has ended with it.
C9_ErrorIsLast ==
    \A k \in 1..Len(aEvents) :
        aEvents[k].type = "error" => (k = Len(aEvents) /\ aPc = "ended")

\* An error reported inside the stream after a text event.
C9_Witness ==
    /\ aProvider = "anthropic"
    /\ Len(aEvents) = 2
    /\ aEvents[1].type = "text"
    /\ aEvents[2] = ErrorEvent("overloaded")
    /\ aPc = "ended"

\* Positions of the message_start / message_delta lines that carry usage.
UsageStarts(w) ==
    { p \in 1..Len(w) : w[p].kind = "event" /\ w[p].type = "message_start"
                        /\ w[p].hasMessageUsage }
UsageDeltas(w) ==
    { p \in 1..Len(w) : w[p].kind = "event" /\ w[p].type = "message_delta"
                        /\ w[p].hasUsage }
Latest(S) == CHOOSE p \in S : \A r \in S : r <= p
ReportedInput(w) ==
    IF UsageStarts(w) = {} THEN 0 ELSE OrZero(w[Latest(UsageStarts(w))].inputTokens)
ReportedOutput(w) ==
    IF UsageDeltas(w) = {} THEN 0 ELSE OrZero(w[Latest(UsageDeltas(w))].outputTokens)

\* C10 (block-oriented adapter): a model call that does not end in an error
\* event emits exactly one usage event, as the last event, carrying the input
\* count of the last message_start and the output count of the last
\* message_delta that reported usage, each 0 when never reported.
C10_OneUsageLast ==
    (aProvider = "anthropic" /\ aPc = "ended"
        /\ aEvents[Len(aEvents)].type # "error") =>
        /\ Len(EventsOfType(aEvents, "usage")) = 1
        /\ aEvents[Len(aEvents)] = UsageEvent(ReportedInput(aWire), ReportedOutput(aWire))

\* A call whose stop event is followed by the usage event with both counts.
C10_Witness ==
    /\ aProvider = "anthropic"
    /\ aPc = "ended"
    /\ Len(aEvents) >= 2
    /\ aEvents[Len(aEvents) - 1].type = "stop"
    /\ aEvents[Len(aEvents)] = UsageEvent(3, 7)

\* C11 (delta-chunk adapter): every model call that does not end in an error
\* event emits exactly one usage event, whatever number of wire chunks carry
\* a usage field.
C11_OpenAIOneUsage ==
    (aProvider = "openai" /\ aPc = "ended"
        /\ (aEvents = << >> \/ aEvents[Len(aEvents)].type # "error")) =>
        Len(EventsOfType(aEvents, "usage")) = 1

\* The reasons a stop event may carry once normalised.
NormalizedStopReasons == {"end_turn", "tool_use", "max_tokens", "stop_sequence"}

\* C12: every stop event emitted by either adapter carries a reason of the
\* fixed backend-independent set; no backend-specific spelling is emitted.
C12_StopReasonNormalized ==
    \A k \in 1..Len(aEvents) :
        aEvents[k].type = "stop" => aEvents[k].stopReason \in NormalizedStopReasons

\* The accumulated fragments are empty or are not a JSON document.
Unparsable(chunks) == JoinChunks(chunks) = "" \/ ~JsonParse(JoinChunks(chunks)).ok

\* C13: in either adapter a tool call whose accumulated fragments are empty
\* or malformed at its completion signal is still emitted as a tool_use
\* event, with input {}; no error event is emitted and the call goes on
\* reading. A data line that is not valid JSON is skipped and the call goes
\* on reading.
C13_MalformedJsonDegrades ==
    [][ (aPc = "reading" /\ Len(aWire') = Len(aWire) + 1) =>
          LET line == aWire'[Len(aWire')]
              new == SubSeq(aEvents', Len(aEvents) + 1, Len(aEvents'))
          IN  /\ line.kind = "badjson" =>
                    (aEvents' = aEvents /\ aToolMap' = aToolMap /\ aPc' = "reading")
              /\ ( /\ aProvider = "anthropic"
                   /\ IsBlockStop(line, line.index)
                   /\ MapHas(aToolMap, line.index)
                   /\ Unparsable(MapGet(aToolMap, line.index).chunks) ) =>
                    /\ new = <<ToolUseEvent(MapGet(aToolMap, line.index).id,
                                            MapGet(aToolMap, line.index).name, << >>)>>
                    /\ aPc' = "reading"
              /\ ( /\ aProvider = "openai"
                   /\ line.kind = "chunk"
                   /\ line.finishReason = "tool_calls"
                   /\ line.toolCalls = << >> ) =>
                    /\ Len(new) = Len(aToolMap) + 1
                    /\ \A k \in 1..Len(aToolMap) :
                          /\ new[k].type = "tool_use"
                          /\ new[k].id = aToolMap[k].id
                          /\ Unparsable(aToolMap[k].chunks) => new[k].input = << >>
                    /\ new[Len(new)] = StopEvent("tool_use")
                    /\ aPc' = "reading"
      ]_vars

\* A tool call completed with only the fragment {"path": received: it was
\* emitted with input {} and the text delta after it was processed.
C13_Witness ==
    /\ aProvider = "anthropic"
    /\ aPc = "reading"
    /\ aWire = <<BlockStart(0, "tool_use", 1, "read_file"), InputJsonDelta(0, FragHead),
                 BlockStop(0), TextDelta(0, "hi")>>
    /\ aEvents = <<ToolUseEvent(1, "read_file", << >>), TextEvent("hi")>>

(***************************************************************************)
(* Claims about the Agent Loop (Spec)                                      *)
(***************************************************************************)

RECURSIVE ToolUseIds(_)
ToolUseIds(blocks) ==
    IF blocks = << >> THEN << >>
    ELSE (IF Head(blocks).type = "tool_use" THEN <<Head(blocks).id>> ELSE << >>)
         \o ToolUseIds(Tail(blocks))

RECURSIVE ToolResultIds(_)
ToolResultIds(blocks) ==
    IF blocks = << >> THEN << >>
    ELSE (IF Head(blocks).type = "tool_result" THEN <<Head(blocks).tool_use_id>> ELSE << >>)
         \o ToolResultIds(Tail(blocks))

\* A user message whose content is a block list: the tool-result message.
IsToolResultMessage(m) == m.role = "user" /\ ~m.isString
\* An assistant message that holds at least one tool_use block.
HasToolUse(m) == m.role = "assistant" /\ ~m.isString /\ ToolUseIds(m.blocks) # << >>

\* m answers a: one tool_result per tool_use of a, same order, same ids.
Answers(m, a) ==
    /\ IsToolResultMessage(m)
    /\ \A k \in 1..Len(m.blocks) : m.blocks[k].type = "tool_result"
    /\ ToolResultIds(m.blocks) = ToolUseIds(a.blocks)

\* C3: in every iteration that proceeds to tool execution, the user message
\* appended after the assistant message holds exactly one tool_result per
\* tool_use block of that assistant message, in the same order and with the
\* same ids, whatever the mix of unknown, denied, failed and successful calls.
C3_ToolResultsMatchToolUses ==
    /\ \A i \in 1..Len(messages) :
          IsToolResultMessage(messages[i]) =>
              /\ i > 1
              /\ HasToolUse(messages[i - 1])
              /\ Answers(messages[i], messages[i - 1])
    /\ pc = "tools" =>
          /\ HasToolUse(messages[Len(messages)])
          /\ ToolUseIds(messages[Len(messages)].blocks) = ToolUseIds(contentBlocks)
          /\ ToolResultIds(toolResults) = SubSeq(ToolUseIds(contentBlocks), 1, blockIdx - 1)
    /\ (pc = "loop" /\ provCalls > 0) => IsToolResultMessage(messages[Len(messages)])

\* A tool-result message that answers two tool calls, one with an error
\* result and one with a successful result.
C3_Witness ==
    \E i \in 2..Len(messages) :
        /\ IsToolResultMessage(messages[i])
        /\ Len(messages[i].blocks) >= 2
        /\ \E k \in 1..Len(messages[i].blocks) : messages[i].blocks[k].is_error
        /\ \E k \in 1..Len(messages[i].blocks) : ~messages[i].blocks[k].is_error

\* C4: after any sequence of turns (sendMessage calls that returned or
\* raised) every assistant message that holds tool_use blocks is immediately
\* followed by a user message holding exactly one tool_result per tool_use,
\* matched by id and order.
C4_EveryToolUseAnswered ==
    pc = "idle" =>
        \A i \in 1..Len(messages) :
            HasToolUse(messages[i]) =>
                /\ i < Len(messages)
                /\ Answers(messages[i + 1], messages[i])

AlwaysToolProvider == env.script # << >>

\* C5: a turn makes at most 20 provider calls; with a provider that answers
\* every call with tool calls and stop reason tool_use the turn never gets
\* stuck and ends, returning without raising, after exactly 20 calls.
C5_IterationCap ==
    /\ provCalls <= MAX_ITERATIONS
    /\ (AlwaysToolProvider /\ pc = "idle" /\ turnsStarted > 0) =>
          (provCalls = MAX_ITERATIONS /\ outcome = "returned")
    /\ (AlwaysToolProvider /\ pc # "idle") => ENABLED LoopNext

\* A turn against the always-tool provider has returned after 20 calls.
C5_Witness ==
    /\ AlwaysToolProvider
    /\ pc = "idle"
    /\ turns = 1
    /\ outcome = "returned"
    /\ provCalls = MAX_ITERATIONS
    /\ Len(messages) = 1 + 2 * MAX_ITERATIONS

\* C6: when the provider yields an error event the turn aborts at once by
\* raising that error's message: no assistant message is appended for the
\* call, no tool is executed, and no provider call follows in that turn.
C6_ErrorAbortsTurn ==
    [][ /\ (pc = "stream" /\ evCount' = evCount + 1 /\ lastEvent'.type = "error") =>
            /\ messages' = messages
            /\ pc' = "idle"
            /\ outcome' = "raised"
            /\ raisedError' = lastEvent'.error
            /\ turns' = turns
        /\ (outcome = "raised" /\ turnsStarted' = turnsStarted) =>
            /\ provCalls' = provCalls
            /\ toolExecs' = toolExecs
            /\ messages' = messages
      ]_vars

\* The first call of a turn yielded a tool_use event and then an error: the
\* turn was raised with the history still ending at the user message.
C6_Witness ==
    /\ outcome = "raised"
    /\ raisedError = "overloaded"
    /\ lastEvent = ErrorEvent("overloaded")
    /\ evCount >= 2
    /\ nextId > 1
    /\ provCalls = 1
    /\ toolExecs = 0
    /\ messages = <<StringMessage("user", "hi")>>

InSeq(x, seq) == \E k \in 1..Len(seq) : seq[k] = x

\* C18: a tool whose execute raises produces a tool_result with is_error =
\* true whose content is the failure's message; the loop goes on with the
\* remaining tool calls and with the next model call; sendMessage raises
\* only for an error event of the provider, never for a lookup miss, a
\* denial or a failed execution.
C18_ToolFailuresDoNotAbort ==
    /\ outcome = "raised" => (lastEvent.type = "error" /\ raisedError = lastEvent.error)
    /\ pc = "tools" =>
          /\ outcome = "none"
          /\ Len(toolResults) = blockIdx - 1
          /\ \A k \in 1..Len(toolResults) :
                (InSeq(contentBlocks[k].id, executed) /\ contentBlocks[k].name \in env.throws)
                    => toolResults[k] = ToolResultBlock(contentBlocks[k].id, "boom", TRUE)
          /\ ENABLED (RunTool \/ ToolSettles \/ AppendToolResults)
    /\ (pc = "loop" /\ provCalls < MAX_ITERATIONS) => ENABLED CallProvider

\* The first of two tool calls failed, both results were appended in one
\* message and the next model call was made and answered.
C18_Witness ==
    \E i \in 2..Len(messages) :
        /\ IsToolResultMessage(messages[i])
        /\ Len(messages[i].blocks) = 2
        /\ messages[i].blocks[1].content = "boom"
        /\ messages[i].blocks[1].is_error
        /\ messages[i].blocks[2].content = "done"
        /\ i < Len(messages)
        /\ messages[i + 1].role = "assistant"
        /\ outcome = "returned"

\* The tool_use blocks of the iteration that carry the given id.
BlockOfId(id) == CHOOSE b \in { contentBlocks[k] : k \in 1..Len(contentBlocks) } : b.id = id

\* C19: when a confirmation predicate is supplied, a registered tool of the
\* dangerous set is executed only after confirmTool was called for that very
\* call and answered true; when it answers false execute is never invoked
\* for that call and the error result 'Tool execution denied by user.' is
\* recorded instead; tools outside the dangerous set are never passed to
\* confirmTool.
C19_DangerousToolsConfirmed ==
    pc = "tools" =>
        /\ \A k \in 1..Len(executed) :
              LET b == BlockOfId(executed[k])
              IN  /\ ToolFound(env, b.name)
                  /\ (env.confirm # "none" /\ b.name \in DANGEROUS_TOOLS) =>
                        InSeq([id |-> b.id, name |-> b.name, answer |-> TRUE], confirmed)
        /\ \A k \in 1..Len(confirmed) :
              /\ confirmed[k].name \in DANGEROUS_TOOLS
              /\ env.confirm # "none"
              /\ BlockOfId(confirmed[k].id).name = confirmed[k].name
              /\ ~confirmed[k].answer =>
                    /\ ~InSeq(confirmed[k].id, executed)
                    /\ InSeq(ToolResultBlock(confirmed[k].id,
                                             "Tool execution denied by user.", TRUE),
                             toolResults)
        /\ \A k \in 1..Len(contentBlocks) :
              (k < blockIdx /\ env.registry /\ env.confirm # "none"
                 /\ contentBlocks[k].name \in DANGEROUS_TOOLS \cap RegisteredTools) =>
                    \E c \in 1..Len(confirmed) : confirmed[c].id = contentBlocks[k].id

\* exec was denied and not executed while read_file, asked for in the same
\* answer, was executed without a confirmation.
C19_Witness ==
    /\ pc = "tools"
    /\ env.confirm = "deny"
    /\ Len(confirmed) = 1
    /\ confirmed[1].name = "exec"
    /\ ~confirmed[1].answer
    /\ toolResults = <<ToolResultBlock(confirmed[1].id, "Tool execution denied by user.",
                                       TRUE)>>
    /\ Len(executed) = 1
    /\ BlockOfId(executed[1]).name = "read_file"
    /\ inFlight = executed

\* The ids of seq appear in ids, in the same relative order.
RECURSIVE InOrderWithin(_, _)
InOrderWithin(seq, ids) ==
    IF seq = << >> THEN TRUE
    ELSE IF ids = << >> THEN FALSE
    ELSE IF Head(seq) = Head(ids) THEN InOrderWithin(Tail(seq), Tail(ids))
    ELSE InOrderWithin(seq, Tail(ids))

\* C20: within one turn at most one provider stream is open and at most one
\* tool execution is in flight; no tool starts before the stream of its
\* iteration has ended; the tools of an iteration run one at a time in
\* emission order; the next provider call starts only after the tool-result
\* message of the iteration was appended.
C20_StrictlySequential ==
    /\ streamsOpen = (IF pc = "stream" THEN 1 ELSE 0)
    /\ Len(inFlight) <= 1
    /\ inFlight # << >> => (streamsOpen = 0 /\ pc = "tools")
    /\ pc = "stream" =>
          /\ executed = << >> /\ toolResults = << >> /\ confirmed = << >>
          /\ provCalls > 1 => IsToolResultMessage(messages[Len(messages)])
    /\ pc = "tools" =>
          /\ InOrderWithin(executed, ToolUseIds(contentBlocks))
          /\ ToolResultIds(toolResults) = SubSeq(ToolUseIds(contentBlocks), 1, blockIdx - 1)
          /\ inFlight # << >> =>
                /\ inFlight = <<contentBlocks[blockIdx].id>>
                /\ executed[Len(executed)] = contentBlocks[blockIdx].id
    /\ (pc = "loop" /\ provCalls > 0) =>
          (inFlight = << >> /\ IsToolResultMessage(messages[Len(messages)]))

\* The second tool of an iteration is in flight after the first one settled.
C20_Witness ==
    /\ pc = "tools"
    /\ streamsOpen = 0
    /\ Len(contentBlocks) >= 2
    /\ blockIdx = 2
    /\ Len(executed) = 2
    /\ Len(toolResults) = 1
    /\ inFlight = <<contentBlocks[2].id>>

(***************************************************************************)
(* Claims about truncation (SpecCtx)                                       *)
(***************************************************************************)

\* The budget truncateMessages works with: its maxTokens argument, which
\* manageContext sets to the available tokens.
CtxBudget == IF ctxOp = "truncateMessages" THEN ctxIn.config.maxContextTokens ELSE CtxAvailable

\* truncateMessages ran on a non-empty history, called directly or by
\* manageContext under strategy 'truncate'.
CtxTruncating ==
    /\ Len(ctxIn.messages) >= 1
    /\ \/ ctxOp = "truncateMessages"
       \/ ctxOp = "manageContext" /\ ctxIn.config.strategy = "truncate" /\ CtxAvailable > 0

CtxFirst == MessageEstimate(ctxIn.messages[1])

\* C27: under truncation, when the first message alone exceeds the budget
\* the result is exactly <<messages[1]>> with dropped = Len(messages) - 1.
C27_FirstMessageOnly ==
    (CtxTruncating /\ CtxFirst > CtxBudget) =>
        /\ ctxOut.status = "returned"
        /\ ctxOut.messages = <<ctxIn.messages[1]>>
        /\ ctxOut.dropped = Len(ctxIn.messages) - 1

\* manageContext was given a first message over the budget and later
\* messages of which one would fit on its own: only the first came back.
C27_Witness ==
    /\ ctxOp = "manageContext" /\ CtxTruncating
    /\ CtxFirst > CtxBudget
    /\ Len(ctxIn.messages) >= 3
    /\ \E k \in 2..Len(ctxIn.messages) :
          MessageEstimate(ctxIn.messages[k]) > 0 /\ MessageEstimate(ctxIn.messages[k]) <= CtxBudget
    /\ ctxOut.messages = <<ctxIn.messages[1]>>
    /\ ctxOut.dropped >= 2

\* The estimated total of messages[j..n].
SuffixTotal(j) == SumOver(MessageEstimate, SubSeq(ctxIn.messages, j, Len(ctxIn.messages)))

\* The start of the longest suffix of messages[2..n] whose total is within
\* the budget left by the first message (n + 1 for the empty suffix).
LongestSuffixStart ==
    CHOOSE j \in 2..(Len(ctxIn.messages) + 1) :
        /\ SuffixTotal(j) <= CtxBudget - CtxFirst
        /\ \A i \in 2..(j - 1) : SuffixTotal(i) > CtxBudget - CtxFirst

\* C28: under truncation, when the first message fits and the whole history
\* does not, the result is the first message followed by the longest suffix
\* of the rest whose total is <= budget - estimate(first), and dropped is
\* the input length minus the returned length: nothing older than the first
\* message that does not fit is kept, even if it would fit on its own.
C28_LongestFittingSuffix ==
    (CtxTruncating /\ CtxFirst <= CtxBudget /\ CtxTotal > CtxBudget) =>
        /\ ctxOut.status = "returned"
        /\ ctxOut.messages =
               <<ctxIn.messages[1]>>
               \o SubSeq(ctxIn.messages, LongestSuffixStart, Len(ctxIn.messages))
        /\ ctxOut.dropped = Len(ctxIn.messages) - Len(ctxOut.messages)

\* The scan stopped at a message that does not fit, and an older message that
\* would have fitted in the budget left was dropped with it.
C28_Witness ==
    /\ CtxTruncating /\ CtxFirst <= CtxBudget /\ CtxTotal > CtxBudget
    /\ Len(ctxIn.messages) = 4
    /\ Len(ctxOut.messages) = 2
    /\ MessageEstimate(ctxIn.messages[3]) > CtxBudget - CtxFirst - SuffixTotal(4)
    /\ MessageEstimate(ctxIn.messages[2]) > 0
    /\ MessageEstimate(ctxIn.messages[2]) <= CtxBudget - CtxFirst - SuffixTotal(4)

(***************************************************************************)
(* Claims about the end of a model call (Spec)                             *)
(***************************************************************************)

\* The for-await of repl.ts:145 has ended without an error event.
StreamEnds == pc = "stream" /\ pc' # "stream" /\ outcome' # "raised"

EventsOfCall(type) == SelectSeq(callEvents, LAMBDA e : e.type = type)

\* The stop reason the call reported: that of its last stop event, end_turn
\* if it yielded none.
ReportedStopReason ==
    IF EventsOfCall("stop") = << >> THEN "end_turn"
    ELSE EventsOfCall("stop")[Len(EventsOfCall("stop"))].stopReason

ToolUseCall == EventsOfCall("tool_use") # << >> /\ ReportedStopReason = "tool_use"

\* C23: when a model call ends, the loop goes on to execute tools iff the
\* call yielded at least one tool_use event and its recorded stop reason is
\* "tool_use" (end_turn when no stop event arrived); otherwise the turn ends
\* at once, and no tool is executed, no onToolCall is made and no tool-result
\* message is appended for that call.
C23_ToolsIffToolUseStop ==
    [][ /\ StreamEnds =>
            IF ToolUseCall
                THEN pc' = "tools" /\ blockIdx' = 1 /\ toolResults' = << >>
                ELSE /\ pc' = "idle" /\ outcome' = "returned" /\ turns' = turns + 1
                     /\ toolExecs' = toolExecs /\ observed' = observed
                     /\ \/ messages' = messages
                        \/ /\ Len(messages') = Len(messages) + 1
                           /\ messages'[Len(messages')].role = "assistant"
        /\ (observed' # observed \/ toolExecs' > toolExecs \/ toolResults' # toolResults)
              => (pc = "tools" \/ pc' = "tools")
      ]_vars

\* A turn has ended on a call that yielded a tool call without the stop
\* reason tool_use: the assistant message holds the tool_use block and
\* nothing was executed.
C23_Witness ==
    /\ pc = "idle" /\ outcome = "returned" /\ provCalls = 1 /\ toolExecs = 0
    /\ observed = << >>
    /\ Len(messages) = 2
    /\ messages[2].role = "assistant"
    /\ ~messages[2].isString
    /\ \E i \in 1..Len(messages[2].blocks) : messages[2].blocks[i].type = "tool_use"

\* The text of the text events of a call, concatenated in arrival order.
RECURSIVE TextOf(_)
TextOf(events) ==
    IF events = << >> THEN ""
    ELSE (IF Head(events).type = "text" THEN Head(events).text ELSE "") \o TextOf(Tail(events))

\* The tool_use blocks of the tool_use events of a call, in emission order.
RECURSIVE ToolUseBlocksOf(_)
ToolUseBlocksOf(events) ==
    IF events = << >> THEN << >>
    ELSE (IF Head(events).type = "tool_use"
             THEN <<ToolUseBlock(Head(events).id, Head(events).name, Head(events).input)>>
             ELSE << >>) \o ToolUseBlocksOf(Tail(events))

\* C24: a model call that ends without an error event and yielded text or
\* tool calls appends exactly one assistant message: one text block with the
\* concatenation of the text chunks in arrival order (when there was any text
\* event), then the tool_use blocks in emission order; the text block comes
\* first wherever the text events stood among the tool_use events. A call
\* that yielded neither appends nothing.
C24_OneAssistantMessage ==
    [][ StreamEnds =>
            IF EventsOfCall("text") = << >> /\ EventsOfCall("tool_use") = << >>
                THEN messages' = messages
                ELSE messages' =
                        Append(messages,
                               BlockMessage("assistant",
                                   (IF EventsOfCall("text") # << >>
                                       THEN <<TextBlock(TextOf(callEvents))>> ELSE << >>)
                                   \o ToolUseBlocksOf(callEvents)))
      ]_vars

\* The provider yielded text, a tool call, more text and another tool call:
\* the assistant message starts with the text block "ab".
C24_Witness ==
    /\ Len(env.script) = 6
    /\ Len(messages) >= 2
    /\ messages[2] = BlockMessage("assistant",
                        <<TextBlock("ab"), ToolUseBlock(1, "exec", << >>),
                          ToolUseBlock(2, "write_file", << >>)>>)

(***************************************************************************)
(* Claims about the tool loop's callbacks (Spec)                           *)
(***************************************************************************)

\* The positions of the calls of one kind in the record of the iteration.
NoticesAt(kind) == { p \in 1..Len(observed) : observed[p].kind = kind }

\* The position of the next onToolCall after p, or the end of the record.
NextCallAfter(p) ==
    IF \E q \in NoticesAt("onToolCall") : q > p
        THEN CHOOSE q \in NoticesAt("onToolCall") :
                 q > p /\ \A r \in NoticesAt("onToolCall") : r > p => q <= r
        ELSE Len(observed) + 1

\* The tool_use blocks whose pass of the for loop has started.
BlocksStarted == (blockIdx - 1) + (IF inFlight # << >> THEN 1 ELSE 0)

\* C25: for the tool_use blocks b1..bn of an iteration the callbacks come in
\* the order onToolCall(b1), onToolResult(b1), onToolCall(b2), ...: every
\* onToolCall(bi) is followed by exactly one onToolResult(bi) before the next
\* onToolCall, the confirmation and the execution of bi lie between the two,
\* and the isError given to onToolResult is the is_error flag of the
\* tool_result block recorded for bi.
C25_CallbacksInOrder ==
    pc = "tools" =>
        /\ Cardinality(NoticesAt("onToolCall")) = BlocksStarted
        /\ Cardinality(NoticesAt("onToolResult")) = Len(toolResults)
        /\ Len(toolResults) = blockIdx - 1
        /\ observed # << >> => observed[1].kind = "onToolCall"
        /\ \A p \in NoticesAt("onToolCall") :
              LET k == Cardinality({ q \in NoticesAt("onToolCall") : q <= p })
                  end == NextCallAfter(p)
                  results == { r \in NoticesAt("onToolResult") : p < r /\ r < end }
              IN  /\ observed[p].id = contentBlocks[k].id
                  /\ observed[p].name = contentBlocks[k].name
                  /\ \A r \in p..(end - 1) : observed[r].id = contentBlocks[k].id
                  /\ IF k < blockIdx
                        THEN /\ results = {end - 1}
                             /\ toolResults[k].tool_use_id = contentBlocks[k].id
                             /\ observed[end - 1].isError = toolResults[k].is_error
                        ELSE results = {}

\* Two tool calls have been processed, one confirmed and executed without
\* error and one that ended in an error result.
C25_Witness ==
    /\ pc = "tools"
    /\ blockIdx = 3
    /\ NoticesAt("confirmTool") # {}
    /\ NoticesAt("execute") # {}
    /\ \E r \in NoticesAt("onToolResult") : observed[r].isError
    /\ \E r \in NoticesAt("onToolResult") : ~observed[r].isError

\* C26: a tool_use block whose name is not in the registry (or any block when
\* no registry was supplied) gets the error result 'Unknown tool: <name>',
\* without a confirmTool call and without an execute call, even when the name
\* is one of the dangerous tools; the passes for the remaining blocks of the
\* iteration still run.
C26_UnknownToolIsErrorResult ==
    pc = "tools" =>
        \A k \in 1..(blockIdx - 1) :
            ~(env.registry /\ contentBlocks[k].name \in RegisteredTools) =>
                /\ k <= Len(toolResults)
                /\ toolResults[k] =
                       ToolResultBlock(contentBlocks[k].id,
                                       "Unknown tool: " \o contentBlocks[k].name, TRUE)
                /\ \A p \in 1..Len(observed) :
                       observed[p].id = contentBlocks[k].id =>
                           observed[p].kind \in {"onToolCall", "onToolResult"}
                /\ ~InSeq(contentBlocks[k].id, executed)
                /\ \A c \in 1..Len(confirmed) : confirmed[c].id # contentBlocks[k].id

\* With a confirmTool supplied, the dangerous tool write_file is not
\* registered: its call got the error result, and the call after it was
\* processed too.
C26_Witness ==
    /\ pc = "tools"
    /\ env.registry /\ env.confirm # "none"
    /\ blockIdx = 3
    /\ contentBlocks[1].name = "write_file"
    /\ "write_file" \in DANGEROUS_TOOLS
    /\ toolResults[1].content = "Unknown tool: write_file"
    /\ contentBlocks[2].name = "read_file"
    /\ toolResults[2].content = "done"

(***************************************************************************)
(* Claims about the usage counters (Spec)                                  *)
(***************************************************************************)

\* The loop consumes one more event of the current call.
Consumes(type) ==
    /\ Len(callEvents') = Len(callEvents) + 1
    /\ callEvents'[Len(callEvents')].type = type

\* C29: totalInputTokens and totalOutputTokens are the sums of the
\* inputTokens and outputTokens of all usage events consumed so far, over all
\* turns: they start at zero, every consumed usage event adds its two numbers,
\* and no other step of the loop changes them, so they never decrease.
C29_UsageAccumulates ==
    /\ totalInputTokens = 0 /\ totalOutputTokens = 0
    /\ [][ /\ IF Consumes("usage")
                 THEN /\ totalInputTokens' =
                            totalInputTokens + callEvents'[Len(callEvents')].inputTokens
                      /\ totalOutputTokens' =
                            totalOutputTokens + callEvents'[Len(callEvents')].outputTokens
                 ELSE /\ totalInputTokens' = totalInputTokens
                      /\ totalOutputTokens' = totalOutputTokens
           /\ totalInputTokens' >= totalInputTokens
           /\ totalOutputTokens' >= totalOutputTokens
         ]_vars

\* Two turns have run and a usage event of 3 and 7 tokens was consumed in
\* each of them.
C29_Witness ==
    /\ turnsStarted = 2 /\ pc = "idle"
    /\ env.script = << >>
    /\ totalInputTokens = 6 /\ totalOutputTokens = 14

(***************************************************************************)
(* Claims about the delta-chunk adapter's tool calls (SpecAdapter)         *)
(***************************************************************************)

\* The tool_calls elements of the lines lo+1..hi of the wire, in order.
RECURSIVE OpenAIDeltas(_, _, _)
OpenAIDeltas(w, lo, hi) ==
    IF hi <= lo THEN << >>
    ELSE OpenAIDeltas(w, lo, hi - 1)
         \o (IF w[hi].kind = "chunk" /\ w[hi].hasChoice THEN w[hi].toolCalls ELSE << >>)

IsFlush(line) == line.kind = "chunk" /\ line.hasChoice /\ line.finishReason = "tool_calls"
IsFinish(line) == line.kind = "chunk" /\ line.hasChoice /\ line.finishReason # ""

\* The last line before q that carried finish_reason "tool_calls", 0 if none.
PrevFlush(w, q) ==
    IF \E p \in 1..(q - 1) : IsFlush(w[p])
        THEN CHOOSE p \in 1..(q - 1) :
                 IsFlush(w[p]) /\ \A r \in 1..(q - 1) : IsFlush(w[r]) => r <= p
        ELSE 0

\* Among the elements d: those that start a call of index i (they carry an
\* id), the first and the latest of them.
CallStarts(d, i) == { p \in 1..Len(d) : d[p].id # 0 /\ d[p].index = i }
FirstCallStart(d, i) == CHOOSE p \in CallStarts(d, i) : \A r \in CallStarts(d, i) : p <= r
LatestCallStart(d, i) == CHOOSE p \in CallStarts(d, i) : \A r \in CallStarts(d, i) : r <= p
PendingIndexes(d) == { i \in Indexes : CallStarts(d, i) # {} }

\* The argument fragments of index i among the elements from..Len(d).
RECURSIVE CallFragments(_, _, _)
CallFragments(d, from, i) ==
    IF from > Len(d) THEN ""
    ELSE (IF d[from].index = i THEN d[from].arguments ELSE "") \o CallFragments(d, from + 1, i)

\* One tool_use per pending index, in the order the indexes were first seen.
RECURSIVE PendingToolUses(_, _)
PendingToolUses(d, S) ==
    IF S = {} THEN << >>
    ELSE LET i == CHOOSE i \in S : \A j \in S : FirstCallStart(d, i) <= FirstCallStart(d, j)
             start == d[LatestCallStart(d, i)]
         IN  <<ToolUseEvent(start.id, start.name,
                            ParsedOrEmpty(CallFragments(d, LatestCallStart(d, i), i)))>>
             \o PendingToolUses(d, S \ {i})

\* A stop event, told apart only by whether its reason is tool_use.
StopShape(e) ==
    IF e.type = "stop"
        THEN StopEvent(IF e.stopReason = "tool_use" THEN "tool_use" ELSE "other")
        ELSE e

RECURSIVE StopShapes(_)
StopShapes(events) ==
    IF events = << >> THEN << >> ELSE <<StopShape(Head(events))>> \o StopShapes(Tail(events))

\* The tool_use and stop events the lines 1..q call for.
RECURSIVE ToolUsesAndStops(_, _)
ToolUsesAndStops(w, q) ==
    IF q = 0 THEN << >>
    ELSE ToolUsesAndStops(w, q - 1)
         \o (IF IsFlush(w[q])
                THEN LET d == OpenAIDeltas(w, PrevFlush(w, q), q)
                     IN  PendingToolUses(d, PendingIndexes(d)) \o <<StopEvent("tool_use")>>
                ELSE IF IsFinish(w[q]) THEN <<StopEvent("other")>> ELSE << >>)

\* tool_use events come only with a chunk whose finish_reason is
\* "tool_calls": then one per pending index, in first-seen order, each with
\* the parsed concatenation of the fragments of the call pending for that
\* index, followed by one stop event with reason tool_use, and the
\* accumulator is left empty.
OpenAIEmitsAtToolCalls ==
    aProvider = "openai" =>
        /\ StopShapes(SelectSeq(aEvents, LAMBDA e : e.type \in {"tool_use", "stop"}))
               = ToolUsesAndStops(aWire, Len(aWire))
        /\ (aWire # << >> /\ IsFlush(aWire[Len(aWire)])) => aToolMap = << >>

\* C30 as stated: the above, and every tool call the backend started (every
\* element that carried an id) has been emitted as a tool_use event once a
\* chunk with a finish_reason has been read.
C30_StartedCallsEmittedAtFinish ==
    /\ OpenAIEmitsAtToolCalls
    /\ aProvider = "openai" =>
          \A q \in 1..Len(aWire) :
              IsFinish(aWire[q]) =>
                  \A p \in 1..Len(OpenAIDeltas(aWire, 0, q)) :
                      OpenAIDeltas(aWire, 0, q)[p].id # 0 =>
                          \E k \in 1..Len(aEvents) :
                              /\ aEvents[k].type = "tool_use"
                              /\ aEvents[k].id = OpenAIDeltas(aWire, 0, q)[p].id

\* What does hold of the calls the backend started: the call pending for an
\* index when a chunk with finish_reason "tool_calls" is read (the one
\* started by the latest element with an id for that index since the previous
\* such chunk) has been emitted as a tool_use event with its id. A call still
\* pending at any other finish_reason, and a call whose index is started
\* again before the chunk, is not emitted.
OpenAIPendingCallsEmittedAtToolCalls ==
    /\ OpenAIEmitsAtToolCalls
    /\ aProvider = "openai" =>
          \A q \in 1..Len(aWire) :
              IsFlush(aWire[q]) =>
                  LET d == OpenAIDeltas(aWire, PrevFlush(aWire, q), q)
                  IN  \A i \in PendingIndexes(d) :
                          \E k \in 1..Len(aEvents) :
                              /\ aEvents[k].type = "tool_use"
                              /\ aEvents[k].id = d[LatestCallStart(d, i)].id

(***************************************************************************)
(* Claims about the clear command (SpecRepl)                               *)
(***************************************************************************)

\* C21: clear empties state.messages and sets turns, totalInputTokens and
\* totalOutputTokens to 0 and leaves systemPrompt as it is: whatever state
\* the conversation was in, after clear it equals
\* createConversation(systemPrompt).
C21_ClearResets ==
    [][ lastCommand' = "clear" =>
            /\ systemPrompt' = systemPrompt
            /\ ConversationState' = createConversation(systemPrompt)
      ]_vars

\* A conversation with a system prompt was cleared after two turns in which
\* the model was called, tokens were counted and history had grown.
C21_Witness ==
    /\ lastCommand = "clear"
    /\ systemPrompt = Some("sys!")
    /\ turnsStarted = 2 /\ provCalls >= 1 /\ freeEvents >= 2
    /\ outcome = "returned"
    /\ ConversationState = createConversation(Some("sys!"))

(***************************************************************************)
(* Claims about the Context Manager in the loop (SpecManaged)              *)
(***************************************************************************)

\* streamMessage is called in this step.
ProviderCalled == pc = "loop" /\ pc' = "stream"

\* The budget of the loop's manageContext call and the estimated size of
\* the history.
ManagedAvailable ==
    contextConfig.maxContextTokens
    - (IF systemPrompt.defined /\ systemPrompt.value # ""
          THEN Quarter(Len(systemPrompt.value)) ELSE 0)
    - contextConfig.reservedTokens
HistoryTotal == SumOver(MessageEstimate, messages)

\* The Context Manager ran on the history of before the call, and its
\* dropped count decides the callback and the history the provider gets.
ManagedBeforeCall ==
    /\ ctxOp' = "manageContext"
    /\ ctxIn' = [messages |-> messages, config |-> contextConfig,
                 systemPrompt |-> systemPrompt, tools |-> None]
    /\ ctxOut' = manageContext(messages, contextConfig, systemPrompt, None)
    /\ ctxOut'.status = "returned"
    /\ IF ctxOut'.dropped > 0
          THEN /\ notified' = <<ctxOut'.dropped>>
               /\ messages' = ctxOut'.messages
               /\ Len(messages') = Len(messages) - ctxOut'.dropped
          ELSE /\ notified' = << >>
               /\ messages' = messages

\* C22 as stated: in every iteration the Context Manager is applied to the
\* history before the provider is called; with dropped > 0 the callback gets
\* exactly that count and the history is replaced by the truncated list,
\* with dropped = 0 there is no callback and the history is unchanged; and
\* the history the provider receives is never over the budget.
C22_ProviderNeverOverBudget ==
    [][ ProviderCalled => (ManagedBeforeCall /\ HistoryTotal' <= ManagedAvailable) ]_vars

\* C22, amended: the same, except that the history the provider receives
\* is within the budget or is the first message alone, which by itself
\* exceeds the budget.
C22_ProviderWithinBudgetOrFirstOnly ==
    [][ ProviderCalled =>
            /\ ManagedBeforeCall
            /\ \/ HistoryTotal' <= ManagedAvailable
               \/ /\ messages' = <<messages[1]>>
                  /\ MessageEstimate(messages[1]) > ManagedAvailable
      ]_vars

\* In the second turn the history had grown past the budget: the callback
\* was told that two messages were dropped and the provider was called with
\* what was left, which fits the budget.
C22_Witness ==
    /\ pc = "stream"
    /\ turnsStarted = 2
    /\ notified = <<2>>
    /\ ctxOut.dropped = 2
    /\ Len(ctxIn.messages) = Len(messages) + 2
    /\ Len(messages) >= 2
    /\ HistoryTotal <= ManagedAvailable

(***************************************************************************)
(* Claims about how a turn ends (Spec)                                     *)
(***************************************************************************)

\* The while test of repl.ts:140 fails and runAgentLoop returns.
CapReached == pc = "loop" /\ pc' = "idle"

\* C35: when the iteration cap is reached the turn ends in the state the
\* 20th iteration left: runAgentLoop returns without raising, the history is
\* left as it is and ends with the tool-result message of that iteration,
\* which answers the assistant message before it, exactly 20 provider calls
\* were made and none follows, and turns is incremented by one with the
\* outcome of a normally completed turn.
C35_CapEndsLikeCompletion ==
    [][ CapReached =>
            /\ provCalls = MAX_ITERATIONS /\ provCalls' = provCalls
            /\ messages' = messages
            /\ Len(messages) >= 2
            /\ HasToolUse(messages[Len(messages) - 1])
            /\ Answers(messages[Len(messages)], messages[Len(messages) - 1])
            /\ turns' = turns + 1
            /\ outcome' = "returned"
            /\ raisedError' = ""
      ]_vars

\* A turn has hit the cap: it returned, counted as a turn, and the history
\* ends with an unanswered tool-result message.
C35_Witness ==
    /\ pc = "idle" /\ outcome = "returned" /\ raisedError = ""
    /\ provCalls = MAX_ITERATIONS
    /\ turns = 1 /\ turnsStarted = 1
    /\ IsToolResultMessage(messages[Len(messages)])
    /\ Answers(messages[Len(messages)], messages[Len(messages) - 1])

IsPrefix(s, t) == Len(s) <= Len(t) /\ SubSeq(t, 1, Len(s)) = s

\* The loop consumes an error event.
ErrorConsumed == pc = "stream" /\ Consumes("error")

\* C37: when a turn aborts on an error event nothing is rolled back: the
\* history keeps the user message of the turn and everything earlier
\* iterations appended (no step of a turn removes or changes a message), the
\* token counters keep what was added, and turns is not incremented; the
\* history then ends with a user message, so the next sendMessage appends a
\* second consecutive user message.
C37_AbortRollsNothingBack ==
    [][ /\ IsPrefix(messages, messages')
        /\ totalInputTokens' >= totalInputTokens
        /\ totalOutputTokens' >= totalOutputTokens
        /\ ErrorConsumed =>
              /\ messages' = messages
              /\ totalInputTokens' = totalInputTokens
              /\ totalOutputTokens' = totalOutputTokens
              /\ turns' = turns
              /\ outcome' = "raised"
              /\ messages[Len(messages)].role = "user"
        /\ (outcome = "raised" /\ turnsStarted' = turnsStarted + 1) =>
              /\ Len(messages') = Len(messages) + 1
              /\ messages'[Len(messages')].role = "user"
              /\ messages'[Len(messages') - 1].role = "user"
      ]_vars

\* The first turn ran one iteration with a tool call and was aborted by an
\* error in its second call; the second turn has started: the history holds
\* the first turn's three messages and then a second user message in a row.
C37_Witness ==
    /\ turnsStarted = 2 /\ turns = 0 /\ pc = "loop"
    /\ Len(messages) = 4
    /\ messages[1] = StringMessage("user", "hi")
    /\ HasToolUse(messages[2])
    /\ IsToolResultMessage(messages[3])
    /\ messages[4] = StringMessage("user", "hi")
    /\ totalInputTokens = 3 /\ totalOutputTokens = 7

\* C40: a model call that ends without an error and yielded neither text nor
\* tool_use events appends no assistant message; the turn completes all the
\* same, turns is incremented, and the history still ends with the user
\* message.
C40_EmptyCallAppendsNothing ==
    [][ (StreamEnds /\ EventsOfCall("text") = << >> /\ EventsOfCall("tool_use") = << >>) =>
            /\ messages' = messages
            /\ messages'[Len(messages')].role = "user"
            /\ pc' = "idle"
            /\ outcome' = "returned"
            /\ turns' = turns + 1
      ]_vars

\* A turn whose only call yielded a stop event and a usage event, and
\* nothing else, has completed: the history is the user message alone.
C40_Witness ==
    /\ pc = "idle" /\ outcome = "returned"
    /\ turns = 1 /\ turnsStarted = 1 /\ provCalls = 1
    /\ freeEvents = 2 /\ nextId = 1
    /\ totalInputTokens = 3
    /\ messages = <<StringMessage("user", "hi")>>

(***************************************************************************)
(* Claims about what truncation leaves intact (SpecCtx)                    *)
(***************************************************************************)

\* The pairing invariant of a history: it starts with a plain user message
\* and every tool-result user message comes right after the assistant
\* message that holds the tool_use blocks with the same ids.
PairingInvariant(msgs) ==
    msgs # << >> =>
        /\ msgs[1].role = "user" /\ msgs[1].isString
        /\ \A i \in 1..Len(msgs) :
              IsToolResultMessage(msgs[i]) =>
                  /\ i > 1
                  /\ HasToolUse(msgs[i - 1])
                  /\ ToolResultIds(msgs[i].blocks) = ToolUseIds(msgs[i - 1].blocks)

\* C34: when the input history satisfies the pairing invariant, the messages
\* truncateMessages returns (called directly or by manageContext) satisfy it
\* too: no kept tool_result refers to a tool_use whose assistant message was
\* dropped.
C34_TruncationKeepsPairing ==
    (CtxTruncating /\ ctxOut.status = "returned" /\ PairingInvariant(ctxIn.messages)) =>
        PairingInvariant(ctxOut.messages)

\* A call of either function has just been made.
CtxCalled == ctxOp = "none" /\ ctxOp' # "none"

\* s is t[1] followed by a suffix of t (or s is all of t).
FirstAndSuffix(s, t) ==
    \/ s = t
    \/ /\ t # << >>
       /\ \E k \in 2..(Len(t) + 1) : s = <<t[1]>> \o SubSeq(t, k, Len(t))

\* C36: manageContext and truncateMessages leave the array passed in as it
\* is, with the same messages in the same order; the array they return is a
\* new one, also when nothing is dropped, and its elements are messages of
\* the input, unmodified and in the input's order.
C36_SideEffectFree ==
    [][ CtxCalled =>
            /\ ctxIn' = ctxIn
            /\ ctxOut'.status = "returned" =>
                  /\ ctxOut'.array = "new"
                  /\ FirstAndSuffix(ctxOut'.messages, ctxIn.messages)
      ]_vars

\* Both cases have happened for a history of four messages: returned whole
\* with nothing dropped, in a new array, and returned shortened.
C36_Witness ==
    /\ ctxOut.status = "returned" /\ ctxOut.array = "new"
    /\ Len(ctxIn.messages) = 4
    /\ ctxOut.dropped = 0
    /\ ctxOut.messages = ctxIn.messages

\* C38: manageContext is idempotent under strategy 'truncate': whenever it
\* returns, applying it with the same config, system prompt and tools to the
\* messages it returned gives the same messages with dropped = 0.
C38_TruncateIdempotent ==
    CtxTruncateReturned =>
        LET again == manageContext(ctxOut.messages, ctxIn.config, ctxIn.systemPrompt,
                                   ctxIn.tools)
        IN  /\ again.status = "returned"
            /\ again.messages = ctxOut.messages
            /\ again.dropped = 0

\* manageContext dropped two or more messages and returned the first
\* message alone, which is over the budget.
C38_Witness ==
    /\ CtxTruncateReturned
    /\ ctxOut.dropped >= 2
    /\ Len(ctxOut.messages) = 1
    /\ CtxOutTotal > CtxAvailable

(***************************************************************************)
(* Claims about the response stream (SpecAdapter)                          *)
(***************************************************************************)

\* A data line equal to the end marker is among the lines read.
DoneRead == \E i \in 1..Len(aWire) : aWire[i].kind = "done"

\* The events a step of the adapter yields.
Yielded == SubSeq(aEvents', Len(aEvents) + 1, Len(aEvents'))

\* C31: for both adapters, once a data line equal to the end marker [DONE]
\* has been read, no later data line of the response produces a text,
\* tool_use or stop event.
C31_NothingAfterDone ==
    [][DoneRead =>
          \A i \in 1..Len(Yielded) : Yielded[i].type \notin {"text", "tool_use", "stop"}
      ]_vars

\* The generator of the call has finished, by returning or by an exception.
CallOver == aPc \in {"ended", "threw"}

\* C32: whenever a model call has ended, its HTTP response stream has been
\* read to its end or cancelled: no response stream is still open.
C32_NoStreamLeftOpen == CallOver => aBody # "open"

\* The backend has signalled that the response is complete: the end marker,
\* or a line carrying the reason the message stopped.
CompletionSignalled ==
    \E i \in 1..Len(aWire) :
        \/ aWire[i].kind = "done"
        \/ aWire[i].kind = "event" /\ aWire[i].stopReason # ""
        \/ aWire[i].kind = "chunk" /\ aWire[i].finishReason # ""

\* The reader reported the end of the body, or failed.
TransportClosed == Ok(aResp) /\ aBody \in {"drained", "errored"}

\* C33: if the transport is closed before the backend signalled completion,
\* the events of the call end with an error event.
C33_EarlyCloseIsErrorEvent ==
    (CallOver /\ TransportClosed /\ ~CompletionSignalled) =>
        /\ Len(aEvents) > 0
        /\ aEvents[Len(aEvents)].type = "error"

(***************************************************************************)
(* Claims about the read loop (SpecReader)                                 *)
(***************************************************************************)

\* The bytes reader.read() has delivered, joined.
Delivered == SubSeq(wireBytes, 1, bytesRead)

NewlinesIn(text) == { i \in 1..Len(text) : text[i] = NL }

\* The position of the k-th newline of the text, 0 for k = 0.
NewlineAt(text, k) ==
    IF k = 0
       THEN 0
       ELSE CHOOSE p \in NewlinesIn(text) :
                Cardinality({ q \in NewlinesIn(text) : q <= p }) = k

\* The lines of the text that a newline ends, and what follows the last one.
EndedLines(text) ==
    [k \in 1..Cardinality(NewlinesIn(text)) |->
        SubSeq(text, NewlineAt(text, k - 1) + 1, NewlineAt(text, k) - 1)]
Unended(text) ==
    SubSeq(text, NewlineAt(text, Cardinality(NewlinesIn(text))) + 1, Len(text))

\* What the for loop makes of the ended lines of the delivered bytes, taken
\* in one pass from the state before the first read.
AtOnce ==
    ForLines(aProvider, ReadState(<< >>, << >>, 0, 0, << >>, FALSE), EndedLines(Delivered))

\* C39: the events an adapter yields depend only on the joined bytes of the
\* response, not on how they were split into chunks: after any sequence of
\* reads the lines processed are the lines a newline has ended so far, each
\* once and whole and in order (up to the line on which send returned), the
\* buffer is what follows the last newline, and the events are those of
\* one pass over these lines.
C39_ChunkingIrrelevant ==
    aPc \in {"reading", "ended"} =>
        /\ buffer = Unended(Delivered)
        /\ Len(aWire) <= Len(EndedLines(Delivered))
        /\ \A k \in 1..Len(aWire) : aWire[k] = ParseLine(aProvider, EndedLines(Delivered)[k])
        /\ aPc = "reading" => Len(aWire) = Len(EndedLines(Delivered))
        /\ aEvents = AtOnce.events
                       \o (IF aBody = "drained" /\ aProvider = "anthropic"
                              THEN FinalUsage(AtOnce.inTok, AtOnce.outTok)
                              ELSE << >>)

\* The last chunk ended a data line whose beginning had arrived in an
\* earlier chunk, and the line has given its text event.
C39_Witness ==
    /\ lineCarried
    /\ aPc = "reading"
    /\ Len(aWire) >= 2
    /\ aWire[Len(aWire)] = ParseLine(aProvider, Data(<<"{", "t", "}">>))
    /\ Len(aEvents) >= 1
    /\ aEvents[Len(aEvents)] = TextEvent("hi")

====
